---- MODULE Spec2Model ----
(***************************************************************************)
(* A model of socket_config: the SocketAddr string syntax (FromStr and     *)
(* Display, src/src/addr.rs) and the open entry point (src/src/open.rs)    *)
(* on a Unix-like platform (src/src/sys/other.rs).                         *)
(*                                                                         *)
(* Strings are sequences of one-character strings.  Option<T> is a         *)
(* sequence of length 0 (None) or 1 (Some).  Result<T, E> is a record with *)
(* the field ok.                                                           *)
(***************************************************************************)
EXTENDS Integers, Sequences, FiniteSets, TLC

VARIABLES
    pOrig,      \* parse/format: the SocketAddr the round trip started from
    pAddr,      \* parse/format: the SocketAddr being formatted
    pText,      \* parse/format: Option<String>, the output of Display
    pResult,    \* parse/format: Option<Result<SocketAddr, InvalidSocketAddrError>>
    pRound,     \* parse/format: number of completed round trips
    fds,        \* the process's descriptor table: descriptor -> what it refers to
    held,       \* the descriptors of the Sockets open has returned and the caller still owns
    environ,    \* the environment variables LISTEN_PID and LISTEN_FDS (Option<String>)
    SD_LISTEN_FDS_END,  \* the Lazy cell: None until forced, then Some(Option<RawSocket>)
    platform,   \* how SO_ACCEPTCONN answers: "ok", "error" (old kernel) or "unsupported" (cfg)
    umask,      \* the process's file mode creation mask
    fs,         \* the file system: path -> what is there
    call,       \* per thread: the open call in progress or last returned
    inheritable,    \* the descriptors of the process that have FD_CLOEXEC clear
    parentProcess   \* None, or once the process is a spawned child: what its parent holds

parseVars == <<pOrig, pAddr, pText, pResult, pRound>>
procVars == <<inheritable, parentProcess>>
openVars == <<fds, held, environ, SD_LISTEN_FDS_END, platform, umask, fs, call, procVars>>

vars == <<parseVars, openVars>>

None == <<>>
Some(x) == <<x>>
is_some(o) == Len(o) = 1
is_none(o) == Len(o) = 0
unwrap(o) == o[1]

Ok(v) == [ok |-> TRUE, val |-> v]
Err(e) == [ok |-> FALSE, err |-> e]

-----------------------------------------------------------------------------
(* Bounds of the string model. *)

\* Longest Unix path drawn as an input of the round trip.
MaxPathLen == 3

-----------------------------------------------------------------------------
(* Characters and integers. *)

\* A byte of a path that is not valid UTF-8, and what to_string_lossy makes of it.
INVALID_BYTE == "<FF>"
REPLACEMENT_CHARACTER == "<U+FFFD>"

HexChars == <<"0", "1", "2", "3", "4", "5", "6", "7", "8", "9", "a", "b", "c", "d", "e", "f">>

AsciiLetters ==
    {"a", "b", "c", "d", "e", "f", "g", "h", "i", "j", "k", "l", "m",
     "n", "o", "p", "q", "r", "s", "t", "u", "v", "w", "x", "y", "z",
     "A", "B", "C", "D", "E", "F", "G", "H", "I", "J", "K", "L", "M",
     "N", "O", "P", "Q", "R", "S", "T", "U", "V", "W", "X", "Y", "Z"}

is_ascii_alphabetic(c) == c \in AsciiLetters

IsDigit(c) == \E d \in 1..10 : HexChars[d] = c
DigitVal(c) == (CHOOSE d \in 1..10 : HexChars[d] = c) - 1

I32_MAX == 2147483647
I32_MIN == (-I32_MAX) - 1
U16_MAX == 65535

\* Display of a non-negative integer in the given radix (no leading zeros).
RECURSIVE FormatRadix(_, _)
FormatRadix(n, radix) ==
    IF n < radix THEN <<HexChars[n + 1]>>
    ELSE Append(FormatRadix(n \div radix, radix), HexChars[(n % radix) + 1])

\* impl Display for i32
FormatI32(n) == IF n < 0 THEN <<"-">> \o FormatRadix(-n, 10) ELSE FormatRadix(n, 10)

\* The digit loop of core::num::from_str_radix for a positive number:
\* checked_mul(10) then checked_add(digit); None on overflow or a non-digit.
RECURSIVE ParseDigitsPos(_, _, _)
ParseDigitsPos(s, acc, max) ==
    IF s = <<>> THEN Some(acc)
    ELSE IF ~IsDigit(Head(s)) THEN None
    ELSE LET d == DigitVal(Head(s)) IN
         IF acc > (max - d) \div 10 THEN None
         ELSE ParseDigitsPos(Tail(s), acc * 10 + d, max)

\* The same loop for a negative number: checked_mul(10) then checked_sub(digit).
RECURSIVE ParseDigitsNeg(_, _, _)
ParseDigitsNeg(s, acc, min) ==
    IF s = <<>> THEN Some(acc)
    ELSE IF ~IsDigit(Head(s)) THEN None
    ELSE LET d == DigitVal(Head(s))
             lo == (min + d + 9) \div 10
         IN  IF acc < lo THEN None
             ELSE ParseDigitsNeg(Tail(s), acc * 10 - d, min)

\* <i32 as FromStr>::from_str, the parse of a RawFd: an optional sign, then
\* at least one digit, within the 32-bit range.
ParseI32(s) ==
    IF s = <<>> THEN None
    ELSE IF s = <<"+">> \/ s = <<"-">> THEN None
    ELSE IF Head(s) = "-" THEN ParseDigitsNeg(Tail(s), 0, I32_MIN)
    ELSE IF Head(s) = "+" THEN ParseDigitsPos(Tail(s), 0, I32_MAX)
    ELSE ParseDigitsPos(s, 0, I32_MAX)

\* The port of a std::net::SocketAddr: digits only, within u16.
ParseU16(s) == IF s = <<>> THEN None ELSE ParseDigitsPos(s, 0, U16_MAX)

starts_with(s, prefix) ==
    Len(s) >= Len(prefix) /\ SubSeq(s, 1, Len(prefix)) = prefix

-----------------------------------------------------------------------------
(* std::net::IpAddr and std::net::SocketAddr, as used by FromStr and       *)
(* Display.  An address is its family and its octets or 16-bit segments.   *)

Ipv4Addr(a, b, c, d) == [family |-> "V4", segs |-> <<a, b, c, d>>]
Ipv6Addr(g) == [family |-> "V6", segs |-> g]

\* The addresses the model draws: localhost, the one of test_serde, one
\* whose first segment is 0xfd, an IPv4-mapped one, one with two zero runs.
IpAddrs ==
    { Ipv4Addr(127, 0, 0, 1),
      Ipv4Addr(10, 0, 0, 253),
      Ipv6Addr(<<0, 0, 0, 0, 0, 0, 0, 1>>),
      Ipv6Addr(<<9735, 63664, 16394, 2052, 0, 0, 0, 8206>>),
      Ipv6Addr(<<253, 0, 0, 0, 0, 0, 0, 1>>),
      Ipv6Addr(<<0, 0, 0, 0, 0, 65535, 32512, 1>>),
      Ipv6Addr(<<1, 0, 0, 2, 0, 0, 0, 3>>) }

\* The ports the model draws.
Ports == {0, 27910, U16_MAX}

RECURSIVE JoinRadix(_, _, _)
JoinRadix(segs, radix, sep) ==
    IF segs = <<>> THEN <<>>
    ELSE IF Len(segs) = 1 THEN FormatRadix(segs[1], radix)
    ELSE FormatRadix(segs[1], radix) \o <<sep>> \o JoinRadix(Tail(segs), radix, sep)

FormatIpv4(o) == JoinRadix(o, 10, ".")

\* Length of the run of zero segments starting at i.
RECURSIVE ZeroRun(_, _)
ZeroRun(g, i) == IF i > Len(g) \/ g[i] # 0 THEN 0 ELSE 1 + ZeroRun(g, i + 1)

\* impl Display for Ipv6Addr: an IPv4-mapped address as ::ffff:a.b.c.d,
\* otherwise the first longest run of two or more zero segments as "::".
FormatIpv6(g) ==
    IF SubSeq(g, 1, 6) = <<0, 0, 0, 0, 0, 65535>> THEN
        <<":", ":", "f", "f", "f", "f", ":">>
            \o FormatIpv4(<<g[7] \div 256, g[7] % 256, g[8] \div 256, g[8] % 256>>)
    ELSE
        LET longest == CHOOSE i \in 1..8 :
                \A j \in 1..8 : ZeroRun(g, j) < ZeroRun(g, i)
                                \/ (ZeroRun(g, j) = ZeroRun(g, i) /\ i <= j)
            len == ZeroRun(g, longest)
        IN  IF len > 1 THEN
                JoinRadix(SubSeq(g, 1, longest - 1), 16, ":") \o <<":", ":">>
                    \o JoinRadix(SubSeq(g, longest + len, 8), 16, ":")
            ELSE JoinRadix(g, 16, ":")

FormatIpAddr(a) == IF a.family = "V4" THEN FormatIpv4(a.segs) ELSE FormatIpv6(a.segs)

\* impl Display for std::net::SocketAddr: V4 as ip:port, V6 as [ip]:port.
FormatStdSocketAddr(a, port) ==
    IF a.family = "V4" THEN FormatIpv4(a.segs) \o <<":">> \o FormatRadix(port, 10)
    ELSE <<"[">> \o FormatIpv6(a.segs) \o <<"]", ":">> \o FormatRadix(port, 10)

\* IpAddr::from_str, on the addresses of the model: the address whose text s is.
ParseIpAddr(s) ==
    IF \E a \in IpAddrs : FormatIpAddr(a) = s
    THEN Some(CHOOSE a \in IpAddrs : FormatIpAddr(a) = s)
    ELSE None

\* std::net::SocketAddr::from_str: ip:port or [ip]:port, the port after the
\* last colon.
ParseStdSocketAddr(s) ==
    LET colons == {i \in 1..Len(s) : s[i] = ":"} IN
    IF colons = {} THEN None
    ELSE
        LET last == CHOOSE i \in colons : \A j \in colons : j <= i
            host == SubSeq(s, 1, last - 1)
            port == ParseU16(SubSeq(s, last + 1, Len(s)))
            bracketed == Len(host) >= 2 /\ host[1] = "[" /\ host[Len(host)] = "]"
            ip == ParseIpAddr(IF bracketed THEN SubSeq(host, 2, Len(host) - 1) ELSE host)
        IN  IF is_none(port) \/ is_none(ip) THEN None
            ELSE IF bracketed # (unwrap(ip).family = "V6") THEN None
            ELSE Some([addr |-> unwrap(ip), port |-> unwrap(port)])

-----------------------------------------------------------------------------
(* SocketAddr (src/src/addr.rs). *)

Ip(addr, port) == [kind |-> "Ip", addr |-> addr, port |-> port]
Unix(path) == [kind |-> "Unix", path |-> path]
Inherit(socket) == [kind |-> "Inherit", socket |-> socket]
InheritStdin == [kind |-> "InheritStdin"]
SystemdNumeric(socket) == [kind |-> "SystemdNumeric", socket |-> socket]

RAW_FD_PREFIX == <<"f", "d", ":">>
RAW_SOCKET_PREFIX == <<"s", "o", "c", "k", "e", "t", ":">>
SYSTEMD_PREFIX == <<"s", "y", "s", "t", "e", "m", "d", ":">>
MAIN_SEPARATOR == "/"

str_is_unix_domain_socket_prefix(s) ==
    \/ starts_with(s, <<"\\">>)
    \/ starts_with(s, <<"/">>)
    \/ starts_with(s, <<".", "\\">>)
    \/ starts_with(s, <<".", "/">>)
    \/ /\ Len(s) >= 3
       /\ is_ascii_alphabetic(s[1])
       /\ s[2] = ":"
       /\ s[3] = "\\"

\* Path::to_string_lossy: every invalid byte becomes U+FFFD.
to_string_lossy(path) ==
    [i \in 1..Len(path) |->
        IF path[i] = INVALID_BYTE THEN REPLACEMENT_CHARACTER ELSE path[i]]

\* The prefix dispatch of from_str: Some(<<kind, prefix>>) or None.
InheritKindOf(s) ==
    IF starts_with(s, RAW_FD_PREFIX) THEN Some(<<"RawFd", RAW_FD_PREFIX>>)
    ELSE IF starts_with(s, RAW_SOCKET_PREFIX) THEN Some(<<"RawFd", RAW_SOCKET_PREFIX>>)
    ELSE IF starts_with(s, SYSTEMD_PREFIX) THEN Some(<<"Systemd", SYSTEMD_PREFIX>>)
    ELSE None

\* impl FromStr for SocketAddr
from_str(s) ==
    IF s = <<"s", "t", "d", "i", "n">> THEN Ok(InheritStdin)
    ELSE IF is_some(InheritKindOf(s)) THEN
        LET inherit_kind == unwrap(InheritKindOf(s))[1]
            inherit_prefix == unwrap(InheritKindOf(s))[2]
            socket == ParseI32(SubSeq(s, Len(inherit_prefix) + 1, Len(s)))
        IN  IF is_none(socket) THEN Err("InvalidSocketNum")
            ELSE IF inherit_kind = "RawFd" THEN Ok(Inherit(unwrap(socket)))
            ELSE Ok(SystemdNumeric(unwrap(socket)))
    ELSE IF str_is_unix_domain_socket_prefix(s) THEN Ok(Unix(s))
    ELSE IF is_some(ParseIpAddr(s)) THEN Ok(Ip(unwrap(ParseIpAddr(s)), None))
    ELSE IF is_some(ParseStdSocketAddr(s)) THEN
        Ok(Ip(unwrap(ParseStdSocketAddr(s)).addr, Some(unwrap(ParseStdSocketAddr(s)).port)))
    ELSE Err("Unrecognized")

\* impl Display for SocketAddr
to_string(self) ==
    CASE self.kind = "Ip" /\ is_none(self.port) -> FormatIpAddr(self.addr)
      [] self.kind = "Ip" /\ is_some(self.port) ->
            FormatStdSocketAddr(self.addr, unwrap(self.port))
      [] self.kind = "Unix" ->
            LET path == to_string_lossy(self.path) IN
            IF ~str_is_unix_domain_socket_prefix(path)
            THEN <<".", MAIN_SEPARATOR>> \o path
            ELSE path
      [] self.kind = "Inherit" -> RAW_FD_PREFIX \o FormatI32(self.socket)
      [] self.kind = "InheritStdin" -> <<"s", "t", "d", "i", "n">>
      [] self.kind = "SystemdNumeric" -> SYSTEMD_PREFIX \o FormatI32(self.socket)

-----------------------------------------------------------------------------
(* The round trip through Display and FromStr, as test_serde drives it:    *)
(* format a SocketAddr, parse the text, then format and parse the result.  *)

\* The characters Unix paths are drawn from.
PathChars == {"/", "\\", ".", ":", "C", INVALID_BYTE}

BoundedSeq(S, n) == UNION {[1..k -> S] : k \in 0..n}

\* The descriptor numbers drawn for Inherit and SystemdNumeric.
RawSockets == {-I32_MAX, -1, 0, 3, 31337, I32_MAX}

\* The constructible SocketAddr values the round trip is run on.
SocketAddrs ==
    {Ip(a, None) : a \in IpAddrs}
        \cup {Ip(a, Some(p)) : a \in IpAddrs, p \in Ports}
        \cup {Unix(path) : path \in BoundedSeq(PathChars, MaxPathLen)}
        \cup {Inherit(n) : n \in RawSockets}
        \cup {InheritStdin}
        \cup {SystemdNumeric(n) : n \in RawSockets}

ParseInit ==
    /\ pOrig \in SocketAddrs
    /\ pAddr = pOrig
    /\ pText = None
    /\ pResult = None
    /\ pRound = 0

\* addr.to_string()
Format ==
    /\ is_none(pText)
    /\ pText' = Some(to_string(pAddr))
    /\ UNCHANGED <<pOrig, pAddr, pResult, pRound, openVars>>

\* SocketAddr::from_str(text)
Parse ==
    /\ is_some(pText)
    /\ is_none(pResult)
    /\ pResult' = Some(from_str(unwrap(pText)))
    /\ UNCHANGED <<pOrig, pAddr, pText, pRound, openVars>>

\* The parsed value is formatted and parsed once more.
Again ==
    /\ is_some(pResult)
    /\ unwrap(pResult).ok
    /\ pRound = 0
    /\ pAddr' = unwrap(pResult).val
    /\ pText' = None
    /\ pResult' = None
    /\ pRound' = 1
    /\ UNCHANGED <<pOrig, openVars>>

ParseNext == Format \/ Parse \/ Again

\* What the round trip of e is said to give: e itself, or, for a Unix path
\* with no recognized prefix, the path with "./" prepended.
Normalized(e) ==
    IF e.kind = "Unix" /\ ~str_is_unix_domain_socket_prefix(e.path)
    THEN Unix(<<".", MAIN_SEPARATOR>> \o e.path)
    ELSE e

\* C1: for every constructible SocketAddr e, parse(format(e)) succeeds and
\* equals e, or, for a Unix path with no recognized prefix, the path with
\* "./" prepended; and that normalized value round-trips unchanged.
C1_RoundTrip ==
    is_some(pResult) =>
        /\ pRound = 0 => unwrap(pResult) = Ok(Normalized(pOrig))
        /\ pRound = 1 => unwrap(pResult) = Ok(pAddr)

\* The same statement away from the two cases where it fails: an IPv6
\* address without port whose text begins with "fd:", and a Unix path that
\* is not valid Unicode.
RoundTripElsewhere ==
    (/\ is_some(pResult)
     /\ ~(pOrig.kind = "Ip" /\ is_none(pOrig.port)
            /\ starts_with(FormatIpAddr(pOrig.addr), RAW_FD_PREFIX))
     /\ ~(pOrig.kind = "Unix" /\ \E i \in 1..Len(pOrig.path) : pOrig.path[i] = INVALID_BYTE))
        => /\ pRound = 0 => unwrap(pResult) = Ok(Normalized(pOrig))
           /\ pRound = 1 => unwrap(pResult) = Ok(pAddr)

-----------------------------------------------------------------------------
(* The process open runs in: descriptors, environment, platform.           *)

\* Most Sockets the caller owns at once, the one being opened included.
MaxHeld == 2

\* The descriptors 0..5 are what the process starts with; the rest are free.
FdLimit == 6 + MaxHeld
Fd == 0..(FdLimit - 1)

Closed == [kind |-> "closed", type |-> "-", listening |-> FALSE]
NotASocket == [kind |-> "file", type |-> "-", listening |-> FALSE]
SocketFd(type, listening) == [kind |-> "socket", type |-> type, listening |-> listening]

\* What standard input may be when the process starts.
StdinStates == {NotASocket, SocketFd("STREAM", TRUE), SocketFd("DGRAM", FALSE)}

\* The descriptor table at process start: stdin, stdout, stderr, a listening
\* stream socket, a connected stream socket, a datagram socket; the rest closed.
InitialFds(stdin) ==
    [d \in Fd |->
        CASE d = 0 -> stdin
          [] d \in {1, 2} -> NotASocket
          [] d = 3 -> SocketFd("STREAM", TRUE)
          [] d = 4 -> SocketFd("STREAM", FALSE)
          [] d = 5 -> SocketFd("DGRAM", FALSE)
          [] OTHER -> Closed]

FdState(table, d) == IF d \in DOMAIN table THEN table[d] ELSE Closed

\* The descriptors a process is started with were inherited: FD_CLOEXEC is
\* clear on them.
NotCloexec(table) == {d \in DOMAIN table : table[d].kind # "closed"}

\* process::id()
ProcessId == 4711

\* <u32 as FromStr>::from_str for LISTEN_PID.  Values above i32::MAX are not
\* represented; they cannot equal ProcessId, and SD_LISTEN_FDS_END is None
\* for an unparsable and for a different process id alike.
ParseU32(s) ==
    IF s = <<>> \/ s = <<"+">> THEN None
    ELSE IF Head(s) = "+" THEN ParseDigitsPos(Tail(s), 0, I32_MAX)
    ELSE ParseDigitsPos(s, 0, I32_MAX)

SD_LISTEN_FDS_START == 3

saturating_add(a, b) == IF b > I32_MAX - a THEN I32_MAX ELSE a + b

\* The closure of the Lazy SD_LISTEN_FDS_END: the end of the window, or None.
SdListenFdsEndInit(env) ==
    LET expected_pid == IF is_none(env.LISTEN_PID) THEN None
                        ELSE ParseU32(unwrap(env.LISTEN_PID))
        total_listen_fds == IF is_none(env.LISTEN_FDS) THEN None
                            ELSE ParseI32(unwrap(env.LISTEN_FDS))
    IN  IF is_none(expected_pid) THEN None
        ELSE IF ProcessId # unwrap(expected_pid) THEN None
        ELSE IF is_none(total_listen_fds) THEN None
        ELSE IF ~(unwrap(total_listen_fds) >= 1) THEN None
        ELSE Some(saturating_add(SD_LISTEN_FDS_START, unwrap(total_listen_fds)))

\* A cell whose closure runs on every use.
ForceEveryTime(cell, env) == Some(SdListenFdsEndInit(env))

\* Lazy::force: the closure runs on first use only.
Force(cell, env) == IF is_some(cell) THEN cell ELSE Some(SdListenFdsEndInit(env))

\* The SystemdNumeric arm dereferences SD_LISTEN_FDS_END only when the left
\* operand of its || is false.
Dereferences(address) ==
    address.kind = "SystemdNumeric" /\ ~(address.socket >= SD_LISTEN_FDS_START)

\* The condition of the SystemdNumeric arm of open under which it inherits.
SystemdAdmits(socket, sd_listen_fds_end) ==
    \/ socket >= SD_LISTEN_FDS_START
    \/ (is_some(sd_listen_fds_end) /\ socket <= unwrap(sd_listen_fds_end))

-----------------------------------------------------------------------------
(* Options and errors. *)

STREAM == "STREAM"
DGRAM == "DGRAM"

OpenError(variant) == [variant |-> variant]
InapplicableUserOption(name) == [variant |-> "InapplicableUserOption", name |-> name]
InheritWrongType(expected, actual) ==
    [variant |-> "InheritWrongType", expected |-> expected, actual |-> actual]
OsError(variant, error) == [variant |-> variant, error |-> error]

\* A check that lets every option pass.
check_inapplicable_ignored(option, name) == Ok(<<>>)

\* A check of a bool option that lets every value pass.
check_inapplicable_bool_ignored(option, name) == Ok(<<>>)

\* inapplicable / check_inapplicable / check_inapplicable_bool
check_inapplicable(option, name) ==
    IF is_some(option) THEN Err(InapplicableUserOption(name)) ELSE Ok(<<>>)

check_inapplicable_bool(option, name) ==
    IF option THEN Err(InapplicableUserOption(name)) ELSE Ok(<<>>)

\* A sequence of checks joined by the ? operator: the first error, or Ok.
Try(results) ==
    IF \E i \in 1..Len(results) : ~results[i].ok
    THEN results[CHOOSE i \in 1..Len(results) :
                    ~results[i].ok /\ \A j \in 1..(i - 1) : results[j].ok]
    ELSE Ok(<<>>)

\* The option checks at the head of the inherit closure.
inherit_check_options(user_options) ==
    Try(<< check_inapplicable(user_options.unix_socket_permissions, "unix_socket_permissions"),
           check_inapplicable(user_options.unix_socket_owner, "unix_socket_owner"),
           check_inapplicable(user_options.unix_socket_group, "unix_socket_group"),
           check_inapplicable_bool(user_options.ip_socket_reuse_port, "ip_socket_reuse_port"),
           check_inapplicable_bool(user_options.ip_socket_v6_only, "ip_socket_v6_only"),
           check_inapplicable(user_options.listen_socket_backlog, "listen_socket_backlog") >>)

-----------------------------------------------------------------------------
(* One call of open, per thread. *)

Threads == {1, 2}

IdleCall ==
    [pc |-> "idle", address |-> InheritStdin, app_options |-> <<>>, user_options |-> <<>>,
     fault |-> "none", raw |-> 0, bind_addr |-> <<>>, listen_backlog |-> None,
     socket |-> None, result |-> None, trace |-> <<>>, prev |-> None,
     api |-> "open", before |-> <<>>]

Did(c, op, arg) == [c EXCEPT !.trace = Append(@, [op |-> op, arg |-> arg])]

\* open returns: an error drops the Socket under construction, if any.
Return(c, result) == [c EXCEPT !.pc = "returned", !.result = Some(result)]

\* The inherit closure up to its first system call.
inherit(c, socket) ==
    LET checked == inherit_check_options(c.user_options) IN
    IF ~checked.ok THEN Return(c, checked)
    ELSE [c EXCEPT !.pc = "dup", !.raw = socket]

\* SocketUserOptions::DEFAULT_LISTEN_SOCKET_BACKLOG
DEFAULT_LISTEN_SOCKET_BACKLOG == 128

\* sun_path of sockaddr_un: socket2::SockAddr::unix rejects a longer path.
SUN_PATH_LEN == 108

\* The preparation with its checks left out.
prepare_unchecked(user_options, socket_path) == Ok(<<>>)

\* unix_security::prepare
prepare(user_options, socket_path) ==
    IF is_none(socket_path) THEN
        Try(<< check_inapplicable(user_options.unix_socket_permissions, "unix_socket_permissions"),
               check_inapplicable(user_options.unix_socket_owner, "unix_socket_owner"),
               check_inapplicable(user_options.unix_socket_group, "unix_socket_group") >>)
    ELSE Ok(<<>>)

unix_socket_path(address) == IF address.kind = "Unix" THEN Some(address.path) ELSE None

\* The flag read the wrong way round.
cleanup_wanted_inverted(user_options) == user_options.unix_socket_no_unlink

\* if !user_options.unix_socket_no_unlink { cleanup_unix_path_socket(socket_path)?; }
cleanup_wanted(user_options) == ~user_options.unix_socket_no_unlink

\* Whether open_new is to call listen.
WantsListen(app_options) == app_options.listen /\ app_options.type = STREAM

\* The steps with the socket bound before its options are set.
NewSteps_bind_before_options ==
    << "socket", "stat", "unlink", "mkdir", "before_bind", "bind", "SO_REUSEADDR",
       "SO_REUSEPORT", "IPV6_V6ONLY", "chown", "chmod", "listen" >>

\* The steps with the permissions set before the owner.
NewSteps_chmod_before_chown ==
    << "socket", "stat", "unlink", "mkdir", "SO_REUSEADDR", "SO_REUSEPORT", "IPV6_V6ONLY",
       "before_bind", "bind", "chmod", "chown", "listen" >>

\* The steps of open_new after the socket is created, in program order, and
\* which of them this call performs.  "unlink" is entered from "stat" only.
NewSteps ==
    << "socket", "stat", "unlink", "mkdir", "SO_REUSEADDR", "SO_REUSEPORT", "IPV6_V6ONLY",
       "before_bind", "bind", "chown", "chmod", "listen" >>

\* Path::parent for the paths of the model: what precedes the last separator.
parent(path) ==
    LET seps == {i \in 1..Len(path) : path[i] = "/"} IN
    IF path = <<>> \/ path = <<"/">> THEN None
    ELSE IF seps = {} THEN Some(<<>>)
    ELSE LET last == CHOOSE i \in seps : \A j \in seps : j <= i IN
         IF last = 1 THEN Some(<<"/">>) ELSE Some(SubSeq(path, 1, last - 1))

\* is_socket_probably_tcp: the protocol if the application names one, else
\* the protocol the platform reports for the new socket (TCP for a stream
\* socket of an IP domain).
is_socket_probably_tcp(c) ==
    IF is_some(c.app_options.protocol) THEN unwrap(c.app_options.protocol) = "TCP"
    ELSE c.app_options.type = STREAM /\ c.address.kind = "Ip"

Performs(c, step) ==
    LET path == unix_socket_path(c.address) IN
    CASE step = "socket" -> TRUE
      [] step = "stat" -> is_some(path) /\ cleanup_wanted(c.user_options)
      [] step = "unlink" -> FALSE
      [] step = "mkdir" -> is_some(path) /\ is_some(parent(unwrap(path)))
      [] step = "SO_REUSEADDR" -> is_some(c.listen_backlog) /\ is_socket_probably_tcp(c)
      [] step = "SO_REUSEPORT" -> c.user_options.ip_socket_reuse_port
      [] step = "IPV6_V6ONLY" -> c.user_options.ip_socket_v6_only
      [] step = "before_bind" -> is_some(c.app_options.before_bind)
      [] step = "bind" -> TRUE
      [] step = "chown" -> is_some(path) /\ (is_some(c.user_options.unix_socket_owner)
                                              \/ is_some(c.user_options.unix_socket_group))
      [] step = "chmod" -> is_some(path) /\ is_some(c.user_options.unix_socket_permissions)
      [] step = "listen" -> is_some(c.listen_backlog)

StepIndex(step) == CHOOSE i \in 1..Len(NewSteps) : NewSteps[i] = step

\* A step that is made again after it succeeded.
AfterRetried(c, step) == step

\* The step open_new goes on to after `step`, or "ok" when none is left.
After(c, step) ==
    LET later == {i \in (StepIndex(step) + 1)..Len(NewSteps) : Performs(c, NewSteps[i])} IN
    IF later = {} THEN "ok"
    ELSE NewSteps[CHOOSE i \in later : \A j \in later : i <= j]

\* The open_new closure up to the creation of the socket.
open_new(c, address) ==
    LET prepared == prepare(c.user_options, unix_socket_path(c.address))
        backlog_checked ==
            IF WantsListen(c.app_options) THEN Ok(<<>>)
            ELSE check_inapplicable(c.user_options.listen_socket_backlog, "listen_socket_backlog")
        listen_backlog ==
            IF WantsListen(c.app_options) THEN
                IF is_some(c.user_options.listen_socket_backlog)
                THEN c.user_options.listen_socket_backlog
                ELSE Some(DEFAULT_LISTEN_SOCKET_BACKLOG)
            ELSE None
    IN  IF ~prepared.ok THEN Return(c, prepared)
        ELSE IF ~backlog_checked.ok THEN Return(c, backlog_checked)
        ELSE [c EXCEPT !.pc = "socket", !.bind_addr = address, !.listen_backlog = listen_backlog]

\* Port resolution that takes an explicit port 0 for "no port".
resolve_port_zero_is_unset(port, default_port) ==
    IF is_some(port) /\ unwrap(port) # 0 THEN port ELSE default_port

\* (*port).or(app_options.default_port)
resolve_port(port, default_port) == IF is_some(port) THEN port ELSE default_port

\* A standard input that is descriptor 1.
get_stdin_as_socket_stdout(c) == Ok(1)

\* sys::get_stdin_as_socket on a platform that is not Windows
get_stdin_as_socket(c) == Ok(0)

\* The body of open: the match on the address, up to the first system call.
\* cell is SD_LISTEN_FDS_END after the arm has forced it.
open(c, cell) ==
    LET address == c.address IN
    CASE address.kind = "Ip" ->
            LET port == resolve_port(address.port, c.app_options.default_port)
            IN  IF is_none(port) THEN Return(c, Err(OpenError("PortRequired")))
                ELSE open_new(c, [addr |-> address.addr, port |-> unwrap(port)])
      [] address.kind = "Unix" ->
            IF Len(address.path) >= SUN_PATH_LEN
            THEN Return(c, Err(OsError("InvalidUnixPath", "InvalidInput")))
            ELSE open_new(c, [path |-> address.path])
      [] address.kind = "Inherit" -> inherit(c, address.socket)
      [] address.kind = "InheritStdin" -> inherit(c, get_stdin_as_socket(c).val)
      [] address.kind = "SystemdNumeric" ->
            IF SystemdAdmits(address.socket, unwrap(cell))
            THEN inherit(c, address.socket)
            ELSE Return(c, Err(OpenError("InvalidSystemdFd")))

-----------------------------------------------------------------------------
(* The steps of open: one action per system call. *)

InFlight == {t \in Threads : call[t].pc \notin {"idle", "returned"}}

\* The lowest closed descriptor not below min: what socket(2) and
\* fcntl(F_DUPFD_CLOEXEC) hand out.
LowestFree(table, min) ==
    CHOOSE d \in DOMAIN table :
        /\ d >= min
        /\ table[d].kind = "closed"
        /\ \A e \in DOMAIN table : (e >= min /\ table[e].kind = "closed") => d <= e

\* Taking ownership of the raw descriptor itself, without duplicating it.
from_raw_fd(table, socket) ==
    IF FdState(table, socket).kind = "closed" THEN Err("EBADF") ELSE Ok(socket)

\* BorrowedFd::try_clone_to_owned: fcntl(F_DUPFD_CLOEXEC, 3) on the raw descriptor.
try_clone_to_owned(table, socket) ==
    IF FdState(table, socket).kind = "closed" THEN Err("EBADF")
    ELSE Ok(LowestFree(table, 3))

\* A call repeats the thread's previous one, except that the user may have
\* changed unix_socket_no_unlink in between.
Repeats(c, req) ==
    /\ req.address = c.address
    /\ req.app_options = c.app_options
    /\ [req.user_options EXCEPT !.unix_socket_no_unlink = FALSE]
            = [c.user_options EXCEPT !.unix_socket_no_unlink = FALSE]
    /\ req.fault = c.fault

\* The requests a thread may make next, among `all`: any of them at first,
\* then those that repeat its previous one.
Requests(t, all) ==
    IF call[t].pc = "returned"
    THEN {req \in {[address |-> call[t].address, app_options |-> call[t].app_options,
                    user_options |-> [call[t].user_options
                                        EXCEPT !.unix_socket_no_unlink = no_unlink],
                    fault |-> call[t].fault] : no_unlink \in BOOLEAN} : req \in all}
    ELSE all

\* open(address, app_options, user_options) is called, and runs up to its
\* first system call.  `noted` is what the caller wrote down before the call.
BeginOpenNoting(t, req, noted) ==
    /\ call[t].pc \in {"idle", "returned"}
    /\ call[t].pc = "returned" => Repeats(call[t], req)
    /\ Cardinality(held) + Cardinality(InFlight) < MaxHeld
    /\ LET cell == IF Dereferences(req.address)
                   THEN Force(SD_LISTEN_FDS_END, environ)
                   ELSE SD_LISTEN_FDS_END
           c == [IdleCall EXCEPT !.pc = "open", !.address = req.address,
                                 !.app_options = req.app_options,
                                 !.user_options = req.user_options,
                                 !.fault = req.fault, !.prev = call[t].result,
                                 !.before = noted]
       IN  /\ call' = [call EXCEPT ![t] = open(c, cell)]
           /\ SD_LISTEN_FDS_END' = cell
    /\ UNCHANGED <<parseVars, procVars, fds, held, environ, platform, umask, fs>>

BeginOpen(t, req) == BeginOpenNoting(t, req, <<>>)

\* A thread calls open with one of the requests it may make.
CallOpen(t, all) == \E req \in Requests(t, all) : BeginOpen(t, req)

\* An error that ends the call and leaves the Socket under construction open.
FailNotDropping(t, c, error) ==
    /\ call' = [call EXCEPT ![t] = Return(c, Err(error))]
    /\ UNCHANGED <<fds, held>>

\* An error ends the call; the Socket under construction is dropped.
Fail(t, c, error) ==
    /\ call' = [call EXCEPT ![t] = Return(c, Err(error))]
    /\ fds' = IF is_some(c.socket) THEN [fds EXCEPT ![unwrap(c.socket)] = Closed] ELSE fds
    /\ UNCHANGED held

\* The step succeeded: on to the next one, or Ok(socket) after the last.
Advance(t, c, next) ==
    IF next = "ok"
    THEN /\ call' = [call EXCEPT ![t] = Return(c, Ok(unwrap(c.socket)))]
         /\ held' = held \cup {unwrap(c.socket)}
    ELSE IF next = "unit"
    THEN /\ call' = [call EXCEPT ![t] = Return(c, Ok(<<>>))]
         /\ UNCHANGED held
    ELSE /\ call' = [call EXCEPT ![t] = [c EXCEPT !.pc = next]]
         /\ UNCHANGED held

\* socket.try_clone_to_owned()
DupInherited(t) ==
    /\ call[t].pc = "dup"
    /\ LET c == Did(call[t], "dup", call[t].raw)
           cloned == try_clone_to_owned(fds, c.raw)
       IN  IF ~cloned.ok
           THEN Fail(t, c, OsError("DupInherited", cloned.err))
           ELSE /\ fds' = [fds EXCEPT ![cloned.val] = FdState(fds, c.raw)]
                /\ call' = [call EXCEPT ![t] = [c EXCEPT !.pc = "type", !.socket = Some(cloned.val)]]
                /\ UNCHANGED held
    /\ UNCHANGED <<parseVars, procVars, environ, SD_LISTEN_FDS_END, platform, umask, fs>>

\* The comparison with the operands exchanged.
type_check_swapped(expected, actual) ==
    IF actual # expected THEN Err(InheritWrongType(actual, expected)) ELSE Ok(<<>>)

\* if actual_type != app_options.type { return Err(InheritWrongType {..}) }
type_check(expected, actual) ==
    IF actual # expected THEN Err(InheritWrongType(expected, actual)) ELSE Ok(<<>>)

\* The listening check with an unknown state taken for "not listening".
listen_check_unknown_is_false(listen, is_listener) ==
    LET actual_listen == is_listener.ok /\ is_listener.val IN
    IF listen # actual_listen
    THEN Err(OpenError(IF listen THEN "InheritedIsNotListening" ELSE "InheritedIsListening"))
    ELSE Ok(<<>>)

\* if let Ok(actual_listen) = socket.is_listener() { if app_options.listen != actual_listen {..} }
listen_check(listen, is_listener) ==
    IF is_listener.ok /\ listen # is_listener.val
    THEN Err(OpenError(IF listen THEN "InheritedIsNotListening" ELSE "InheritedIsListening"))
    ELSE Ok(<<>>)

\* Socket::is_listener: getsockopt(SO_ACCEPTCONN), which an old kernel lacks.
is_listener(state) == IF platform = "ok" THEN Ok(state.listening) ELSE Err("ENOPROTOOPT")

\* socket.type() and the comparison with app_options.type
CheckType(t) ==
    /\ call[t].pc = "type"
    /\ LET c == Did(call[t], "type", unwrap(call[t].socket))
           state == fds[unwrap(c.socket)]
       IN  IF state.kind # "socket"
           THEN Fail(t, c, OsError("CheckInheritedSocket", "ENOTSOCK"))
           ELSE IF ~type_check(c.app_options.type, state.type).ok
           THEN Fail(t, c, type_check(c.app_options.type, state.type).err)
           ELSE IF platform # "unsupported" /\ state.type = STREAM
           THEN Advance(t, c, "is_listener") /\ UNCHANGED fds
           ELSE Advance(t, c, "ok") /\ UNCHANGED fds
    /\ UNCHANGED <<parseVars, procVars, environ, SD_LISTEN_FDS_END, platform, umask, fs>>

\* socket.is_listener() and the comparison with app_options.listen
CheckListening(t) ==
    /\ call[t].pc = "is_listener"
    /\ LET c == Did(call[t], "is_listener", unwrap(call[t].socket))
           checked == listen_check(c.app_options.listen, is_listener(fds[unwrap(c.socket)]))
       IN  IF ~checked.ok THEN Fail(t, c, checked.err)
           ELSE Advance(t, c, "ok") /\ UNCHANGED fds
    /\ UNCHANGED <<parseVars, procVars, environ, SD_LISTEN_FDS_END, platform, umask, fs>>

\* Files of the model's file system: a kind with mode, owner and group.
Absent == [kind |-> "none", mode |-> 0, owner |-> 0, group |-> 0]
File(kind, mode) == [kind |-> kind, mode |-> mode, owner |-> 0, group |-> 0]

FsState(tree, path) == IF path \in DOMAIN tree THEN tree[path] ELSE File("dir", 493)

PathOf(c) == unwrap(unix_socket_path(c.address))

\* Socket::new(address.domain(), app_options.type, app_options.protocol)
CreateSocket(t) ==
    /\ call[t].pc = "socket"
    /\ LET c == Did(call[t], "socket", call[t].app_options.type)
           fd == LowestFree(fds, 0)
           made == [c EXCEPT !.socket = Some(fd)]
       IN  IF c.fault = "socket"
           THEN Fail(t, c, OsError("CreateSocket", "EAFNOSUPPORT")) /\ UNCHANGED fs
           ELSE /\ fds' = [fds EXCEPT ![fd] = SocketFd(c.app_options.type, FALSE)]
                /\ Advance(t, made, After(made, "socket"))
                /\ UNCHANGED fs
    /\ UNCHANGED <<parseVars, procVars, environ, SD_LISTEN_FDS_END, platform, umask>>

\* is_unix_socket that reads "nothing at the path" as "not a socket".
is_unix_socket_missing_is_false(tree, path) == Ok(FsState(tree, path).kind = "socket")

\* is_unix_socket: fs::symlink_metadata(path).map(|m| m.file_type().is_socket())
is_unix_socket(tree, path) ==
    IF FsState(tree, path).kind = "none" THEN Err("NotFound")
    ELSE Ok(FsState(tree, path).kind = "socket")

\* The stat result passed on as it is.
or_else_nothing(found) == found

\* cleanup_unix_path_socket: .or_else(..): a "not found" error is Ok(false)
or_else_not_found_is_false(found) ==
    IF ~found.ok /\ found.err = "NotFound" THEN Ok(FALSE) ELSE found

\* What follows cleanup_unix_path_socket: the rest of open_new, or the return
\* of SocketAddr::cleanup.
AfterCleanup(c, step) == IF c.api = "cleanup" THEN "unit" ELSE After(c, step)

\* cleanup_unix_path_socket: is_unix_socket(path), "not found" read as false
CleanupStat(t) ==
    /\ call[t].pc = "stat"
    /\ LET c == Did(call[t], "stat", PathOf(call[t]))
           found == or_else_not_found_is_false(
                        IF c.fault = "stat" THEN Err("PermissionDenied")
                        ELSE is_unix_socket(fs, PathOf(c)))
       IN  IF ~found.ok
           THEN Fail(t, c, [variant |-> "Cleanup", source |-> "Stat", error |-> found.err])
           ELSE IF found.val
           THEN Advance(t, c, "unlink") /\ UNCHANGED fds
           ELSE Advance(t, c, AfterCleanup(c, "stat")) /\ UNCHANGED fds
    /\ UNCHANGED <<parseVars, procVars, environ, SD_LISTEN_FDS_END, platform, umask, fs>>

\* fs::remove_file(path), that is unlink(2): the tree without the file, or the
\* error for a missing file or a directory.
remove_file(tree, path) ==
    CASE FsState(tree, path).kind = "none" -> Err("NotFound")
      [] FsState(tree, path).kind = "dir" -> Err("IsADirectory")
      [] OTHER -> Ok([tree EXCEPT ![path] = Absent])

\* Every error of remove_file passed on.
remove_error_returned(removed, tree) == removed

\* cleanup_unix_path_socket: an error of remove_file is returned unless its
\* kind is NotFound.
remove_error_unless_not_found(removed, tree) ==
    IF ~removed.ok /\ removed.err = "NotFound" THEN Ok(tree) ELSE removed

\* cleanup_unix_path_socket: fs::remove_file(path), "not found" tolerated
CleanupUnlink(t) ==
    /\ call[t].pc = "unlink"
    /\ LET c == Did(call[t], "unlink", PathOf(call[t]))
           removed == remove_error_unless_not_found(
                        IF c.fault = "unlink" THEN Err("PermissionDenied")
                        ELSE remove_file(fs, PathOf(c)), fs)
       IN  IF ~removed.ok
           THEN /\ Fail(t, c, [variant |-> "Cleanup", source |-> "Unlink",
                               error |-> removed.err])
                /\ UNCHANGED fs
           ELSE /\ fs' = removed.val
                /\ Advance(t, c, AfterCleanup(c, "unlink"))
                /\ UNCHANGED fds
    /\ UNCHANGED <<parseVars, procVars, environ, SD_LISTEN_FDS_END, platform, umask>>

\* fs::create_dir_all(socket_parent_path)
MkdirParents(t) ==
    /\ call[t].pc = "mkdir"
    /\ LET dir == unwrap(parent(PathOf(call[t])))
           c == Did(call[t], "mkdir", dir)
       IN  IF c.fault = "mkdir" \/ (dir # <<>> /\ FsState(fs, dir).kind \notin {"none", "dir"})
           THEN Fail(t, c, OsError("MkdirParents", "AlreadyExists")) /\ UNCHANGED fs
           ELSE /\ fs' = IF dir # <<>> /\ FsState(fs, dir).kind = "none"
                         THEN [fs EXCEPT ![dir] = File("dir", 493)]
                         ELSE fs
                /\ Advance(t, c, After(c, "mkdir"))
                /\ UNCHANGED fds
    /\ UNCHANGED <<parseVars, procVars, environ, SD_LISTEN_FDS_END, platform, umask>>

\* socket.set_reuse_address(true), set_reuse_port(true), set_only_v6(true):
\* IPV6_V6ONLY is an option of IPv6 sockets only.
SetSockOpt(t, option) ==
    /\ call[t].pc = option
    /\ LET c == Did(call[t], option, TRUE)
           v6 == c.address.kind = "Ip" /\ c.address.addr.family = "V6"
       IN  IF c.fault = option \/ (option = "IPV6_V6ONLY" /\ ~v6)
           THEN Fail(t, c, [variant |-> "SetSockOpt", option |-> option, error |-> "ENOPROTOOPT"])
           ELSE Advance(t, c, After(c, option)) /\ UNCHANGED fds
    /\ UNCHANGED <<parseVars, procVars, environ, SD_LISTEN_FDS_END, platform, umask, fs>>

\* A hook whose error is dropped.
before_bind_error_ignored(hook) == Ok(<<>>)

\* before_bind(&mut socket).map_err(OpenSocketError::BeforeBind): the hook is
\* given by what it returns, "Ok" or the io::Error.
call_before_bind(hook) ==
    IF hook = "Ok" THEN Ok(<<>>) ELSE Err([variant |-> "BeforeBind", error |-> hook])

\* if let Some(before_bind) = &app_options.before_bind { before_bind(&mut socket)?; }
BeforeBind(t) ==
    /\ call[t].pc = "before_bind"
    /\ LET c == Did(call[t], "before_bind", unwrap(call[t].socket))
           returned == call_before_bind(unwrap(c.app_options.before_bind))
       IN
       IF ~returned.ok
       THEN Fail(t, c, returned.err)
       ELSE Advance(t, c, After(c, "before_bind")) /\ UNCHANGED fds
    /\ UNCHANGED <<parseVars, procVars, environ, SD_LISTEN_FDS_END, platform, umask, fs>>

\* The umask a process usually runs under, 0o022.
DefaultUmask == 18

\* a & !b on permission bits
RECURSIVE AndNot(_, _)
AndNot(a, b) ==
    IF a = 0 THEN 0
    ELSE (IF a % 2 = 1 /\ b % 2 = 0 THEN 1 ELSE 0) + 2 * AndNot(a \div 2, b \div 2)

\* The mode of a socket file that bind creates: 0o777 less the umask.
BoundSocketMode == AndNot(511, umask)

\* A mode set the way a file is created, less the umask.
set_permissions_under_umask(file, mode, mask) == [file EXCEPT !.mode = AndNot(mode, mask)]

\* fs::set_permissions(socket_path, Permissions::from_mode(mode.bits())): chmod(2)
set_permissions(file, mode, mask) == [file EXCEPT !.mode = mode]

\* socket.bind(&address): binding a path creates the socket file there, and
\* fails when anything exists at the path.
Bind(t) ==
    /\ call[t].pc = "bind"
    /\ LET c == Did(call[t], "bind", call[t].bind_addr)
           unix == is_some(unix_socket_path(c.address))
       IN  IF c.fault = "bind"
           THEN Fail(t, c, OsError("Bind", "PermissionDenied")) /\ UNCHANGED fs
           ELSE IF unix /\ FsState(fs, PathOf(c)).kind # "none"
           THEN Fail(t, c, OsError("Bind", "AddrInUse")) /\ UNCHANGED fs
           ELSE IF unix /\ FsState(fs, unwrap(parent(PathOf(c)))).kind # "dir"
           THEN Fail(t, c, OsError("Bind", "NotFound")) /\ UNCHANGED fs
           ELSE /\ fs' = IF unix
                         THEN [fs EXCEPT ![PathOf(c)] = File("socket", BoundSocketMode)]
                         ELSE fs
                /\ Advance(t, c, After(c, "bind"))
                /\ UNCHANGED fds
    /\ UNCHANGED <<parseVars, procVars, environ, SD_LISTEN_FDS_END, platform, umask>>

\* unix_security::apply: chown(socket_path, owner, group)
SetOwner(t) ==
    /\ call[t].pc = "chown"
    /\ LET o == call[t].user_options
           c == Did(call[t], "chown", <<o.unix_socket_owner, o.unix_socket_group>>)
           file == FsState(fs, PathOf(c))
       IN  IF c.fault = "chown" \/ file.kind = "none"
           THEN Fail(t, c, OsError("SetOwner", IF file.kind = "none" THEN "NotFound"
                                               ELSE "PermissionDenied")) /\ UNCHANGED fs
           ELSE /\ fs' = [fs EXCEPT ![PathOf(c)] =
                            [file EXCEPT
                                !.owner = IF is_some(o.unix_socket_owner)
                                          THEN unwrap(o.unix_socket_owner) ELSE @,
                                !.group = IF is_some(o.unix_socket_group)
                                          THEN unwrap(o.unix_socket_group) ELSE @]]
                /\ Advance(t, c, After(c, "chown"))
                /\ UNCHANGED fds
    /\ UNCHANGED <<parseVars, procVars, environ, SD_LISTEN_FDS_END, platform, umask>>

\* unix_security::apply: fs::set_permissions(socket_path, permissions)
SetPermissions(t) ==
    /\ call[t].pc = "chmod"
    /\ LET mode == unwrap(call[t].user_options.unix_socket_permissions)
           c == Did(call[t], "chmod", mode)
           file == FsState(fs, PathOf(c))
       IN  IF c.fault = "chmod" \/ file.kind = "none"
           THEN Fail(t, c, OsError("SetPermissions", IF file.kind = "none" THEN "NotFound"
                                                     ELSE "PermissionDenied")) /\ UNCHANGED fs
           ELSE /\ fs' = [fs EXCEPT ![PathOf(c)] = set_permissions(file, mode, umask)]
                /\ Advance(t, c, After(c, "chmod"))
                /\ UNCHANGED fds
    /\ UNCHANGED <<parseVars, procVars, environ, SD_LISTEN_FDS_END, platform, umask>>

\* socket.listen(listen_backlog)
Listen(t) ==
    /\ call[t].pc = "listen"
    /\ LET c == Did(call[t], "listen", unwrap(call[t].listen_backlog)) IN
       IF c.fault = "listen"
       THEN Fail(t, c, OsError("Listen", "EOPNOTSUPP"))
       ELSE /\ fds' = [fds EXCEPT ![unwrap(c.socket)].listening = TRUE]
            /\ Advance(t, c, "ok")
    /\ UNCHANGED <<parseVars, procVars, environ, SD_LISTEN_FDS_END, platform, umask, fs>>

\* The caller drops a Socket that open returned: close(2).
Drop(d) ==
    /\ d \in held
    /\ held' = held \ {d}
    /\ fds' = [fds EXCEPT ![d] = Closed]
    /\ inheritable' = inheritable \ {d}
    /\ UNCHANGED <<parseVars, parentProcess, environ, SD_LISTEN_FDS_END, platform, umask, fs, call>>

-----------------------------------------------------------------------------
(* The inputs of open. *)

\* Most user options one request sets.
MaxSetOptions == 2

UserOptionNames ==
    {"unix_socket_no_unlink", "unix_socket_permissions", "unix_socket_owner",
     "unix_socket_group", "ip_socket_reuse_port", "ip_socket_v6_only", "listen_socket_backlog"}

\* SocketUserOptions::default(), and the value each option takes when set:
\* mode 0o660, uid 1000, gid 100, a backlog of 5.
UserOptionValue(name, set) ==
    CASE name \in {"unix_socket_no_unlink", "ip_socket_reuse_port", "ip_socket_v6_only"} -> set
      [] name = "unix_socket_permissions" -> IF set THEN Some(432) ELSE None
      [] name = "unix_socket_owner" -> IF set THEN Some(1000) ELSE None
      [] name = "unix_socket_group" -> IF set THEN Some(100) ELSE None
      [] name = "listen_socket_backlog" -> IF set THEN Some(5) ELSE None

UserOptionsSetting(names) == [n \in UserOptionNames |-> UserOptionValue(n, n \in names)]

UserOptionSets(among) ==
    {UserOptionsSetting(names) : names \in {S \in SUBSET among : Cardinality(S) <= MaxSetOptions}}

\* SocketAppOptions::new(type) with the given fields changed.
AppOptions(type, listen, default_port, before_bind, protocol) ==
    [type |-> type, protocol |-> protocol, listen |-> listen,
     default_port |-> default_port, before_bind |-> before_bind]

\* The inherited addresses open is called with.
InheritAddresses ==
    {Inherit(d) : d \in {0, 1, 3, 4, 5, 6}} \cup {InheritStdin}
        \cup {SystemdNumeric(d) : d \in {3, 4}}

InheritRequests ==
    [address : InheritAddresses,
     app_options : {AppOptions(type, listen, None, None, None) :
                        type \in {STREAM, DGRAM}, listen \in BOOLEAN},
     user_options : UserOptionSets(UserOptionNames),
     fault : {"none"}]

\* Text of an environment variable.
Text(n) == FormatRadix(n, 10)

NoEnvironment == [LISTEN_PID |-> None, LISTEN_FDS |-> None]
Activated(n) == [LISTEN_PID |-> Some(Text(ProcessId)), LISTEN_FDS |-> Some(Text(n))]

\* The socket paths of the model and their parent directories.
SocketPaths == {<<".", "/", "d", "/", "s">>, <<"s">>}
FsPaths == SocketPaths \cup {<<".", "/", "d">>}

ParseIdle ==
    /\ pOrig = InheritStdin
    /\ pAddr = InheritStdin
    /\ pText = None
    /\ pResult = None
    /\ pRound = 0

OpenIdle ==
    /\ fds = InitialFds(NotASocket)
    /\ held = {}
    /\ environ = NoEnvironment
    /\ SD_LISTEN_FDS_END = None
    /\ platform = "ok"
    /\ umask = DefaultUmask
    /\ inheritable = NotCloexec(fds)
    /\ parentProcess = None
    /\ fs = [p \in FsPaths |-> Absent]
    /\ call = [t \in Threads |-> IdleCall]

\* A SocketAddr is formatted and parsed in a process that never calls open.
RoundTripInit ==
    /\ ParseInit
    /\ OpenIdle

SpecParse == RoundTripInit /\ [][ParseNext]_vars

\* A process that was handed sockets, by a parent or by socket activation.
InheritInit ==
    /\ ParseIdle
    /\ \E stdin \in StdinStates : fds = InitialFds(stdin)
    /\ held = {}
    /\ environ \in {NoEnvironment, Activated(2)}
    /\ SD_LISTEN_FDS_END = None
    /\ platform \in {"ok", "error", "unsupported"}
    /\ umask = DefaultUmask
    /\ inheritable = NotCloexec(fds)
    /\ parentProcess = None
    /\ fs = [p \in FsPaths |-> Absent]
    /\ call = [t \in Threads |-> IdleCall]

InheritNext ==
    \/ CallOpen(1, InheritRequests)
    \/ DupInherited(1)
    \/ CheckType(1)
    \/ CheckListening(1)
    \/ \E d \in Fd : Drop(d)

SpecInherit == InheritInit /\ [][InheritNext]_vars

-----------------------------------------------------------------------------
(* A process that systemd may have activated. *)

SystemdEnvironments ==
    {NoEnvironment, Activated(1), Activated(2),
     [LISTEN_PID |-> Some(Text(ProcessId + 1)), LISTEN_FDS |-> Some(Text(2))],
     [LISTEN_PID |-> Some(<<"x">>), LISTEN_FDS |-> Some(Text(2))],
     [LISTEN_PID |-> Some(Text(ProcessId)), LISTEN_FDS |-> None],
     [LISTEN_PID |-> Some(Text(ProcessId)), LISTEN_FDS |-> Some(<<"x">>)],
     [LISTEN_PID |-> Some(Text(ProcessId)), LISTEN_FDS |-> Some(Text(0))]}

SystemdRequests ==
    [address : {SystemdNumeric(d) : d \in {-1, 0, 2, 3, 4, 5, 6}},
     app_options : {AppOptions(type, listen, None, None, None) :
                        type \in {STREAM, DGRAM}, listen \in BOOLEAN},
     user_options : UserOptionSets(UserOptionNames),
     fault : {"none"}]

SystemdInit ==
    /\ ParseIdle
    /\ fds = InitialFds(NotASocket)
    /\ held = {}
    /\ environ \in SystemdEnvironments
    /\ SD_LISTEN_FDS_END = None
    /\ platform = "ok"
    /\ umask = DefaultUmask
    /\ inheritable = NotCloexec(fds)
    /\ parentProcess = None
    /\ fs = [p \in FsPaths |-> Absent]
    /\ call = [t \in Threads |-> IdleCall]

SystemdNext ==
    \/ CallOpen(1, SystemdRequests)
    \/ DupInherited(1)
    \/ CheckType(1)
    \/ CheckListening(1)
    \/ \E d \in Fd : Drop(d)

SpecSystemd == SystemdInit /\ [][SystemdNext]_vars

-----------------------------------------------------------------------------
(* Two threads that open inherited sockets with no coordination. *)

ConcRequests ==
    [address : {Inherit(3), Inherit(5), InheritStdin, SystemdNumeric(4)},
     app_options : {AppOptions(type, listen, None, None, None) :
                        type \in {STREAM, DGRAM}, listen \in BOOLEAN},
     user_options : UserOptionSets({"listen_socket_backlog"}),
     fault : {"none"}]

ConcInit ==
    /\ ParseIdle
    /\ \E stdin \in StdinStates : fds = InitialFds(stdin)
    /\ held = {}
    /\ environ = Activated(2)
    /\ SD_LISTEN_FDS_END = None
    /\ platform \in {"ok", "unsupported"}
    /\ umask = DefaultUmask
    /\ inheritable = NotCloexec(fds)
    /\ parentProcess = None
    /\ fs = [p \in FsPaths |-> Absent]
    /\ call = [t \in Threads |-> IdleCall]

ConcNext ==
    \/ \E t \in Threads : CallOpen(t, ConcRequests)
    \/ \E t \in Threads : DupInherited(t)
    \/ \E t \in Threads : CheckType(t)
    \/ \E t \in Threads : CheckListening(t)
    \/ \E d \in Fd : Drop(d)

SpecConc == ConcInit /\ [][ConcNext]_vars

-----------------------------------------------------------------------------
(* A process that opens new sockets. *)

IpAddresses ==
    {Ip(Ipv4Addr(127, 0, 0, 1), port) : port \in {None, Some(0)}}
        \cup {Ip(Ipv6Addr(<<0, 0, 0, 0, 0, 0, 0, 1>>), None)}

UnixAddresses == {Unix(path) : path \in SocketPaths}

Hooks == {None, Some("Ok"), Some("Err")}
Faults == {"socket", "stat", "unlink", "mkdir", "SO_REUSEADDR", "bind", "chown", "chmod",
           "listen"}

\* Every combination of address, type, listen, default port and user options;
\* hooks, protocols and failures of the operating system with few user options.
NewRequests ==
    [address : IpAddresses,
     app_options : {AppOptions(type, listen, default_port, None, None) :
                        type \in {STREAM, DGRAM}, listen \in BOOLEAN,
                        default_port \in {None, Some(27910)}},
     user_options : UserOptionSets(UserOptionNames),
     fault : {"none"}]
    \cup
    [address : UnixAddresses,
     app_options : {AppOptions(type, listen, None, None, None) :
                        type \in {STREAM, DGRAM}, listen \in BOOLEAN},
     user_options : UserOptionSets(UserOptionNames),
     fault : {"none"}]
    \cup
    [address : IpAddresses \cup UnixAddresses,
     app_options : {AppOptions(STREAM, TRUE, Some(27910), before_bind, protocol) :
                        before_bind \in Hooks, protocol \in {None, Some("TCP")}},
     user_options : {UserOptionsSetting({})},
     fault : {"none"}]
    \cup
    [address : IpAddresses \cup UnixAddresses,
     app_options : {AppOptions(STREAM, TRUE, Some(27910), None, None)},
     user_options : UserOptionSets({"unix_socket_no_unlink", "unix_socket_permissions"}),
     fault : Faults]

\* What the file system holds when the process starts.
InitialFs ==
    LET dir == <<".", "/", "d">>
        deep == <<".", "/", "d", "/", "s">>
        flat == <<"s">>
    IN  { [p \in FsPaths |-> Absent],
          [p \in FsPaths |-> CASE p = dir -> File("dir", 493)
                               [] p = deep -> File("socket", BoundSocketMode)
                               [] p = flat -> File("file", 420)],
          [p \in FsPaths |-> CASE p = dir -> File("file", 420)
                               [] p = deep -> Absent
                               [] p = flat -> File("socket", BoundSocketMode)] }

NewInit ==
    /\ ParseIdle
    /\ fds = InitialFds(NotASocket)
    /\ held = {}
    /\ environ = NoEnvironment
    /\ SD_LISTEN_FDS_END = None
    /\ platform = "ok"
    /\ umask = DefaultUmask
    /\ inheritable = NotCloexec(fds)
    /\ parentProcess = None
    /\ fs \in InitialFs
    /\ call = [t \in Threads |-> IdleCall]

NewNext ==
    \/ CallOpen(1, NewRequests)
    \/ CreateSocket(1)
    \/ CleanupStat(1)
    \/ CleanupUnlink(1)
    \/ MkdirParents(1)
    \/ \E option \in {"SO_REUSEADDR", "SO_REUSEPORT", "IPV6_V6ONLY"} : SetSockOpt(1, option)
    \/ BeforeBind(1)
    \/ Bind(1)
    \/ SetOwner(1)
    \/ SetPermissions(1)
    \/ Listen(1)
    \/ \E d \in Fd : Drop(d)

SpecNew == NewInit /\ [][NewNext]_vars

-----------------------------------------------------------------------------
(* Properties of open. *)

Returned(t) == call[t].pc = "returned"
Result(t) == unwrap(call[t].result)
Failed(t, variant) == Returned(t) /\ ~Result(t).ok /\ Result(t).err.variant = variant

\* SocketAddr::is_inherited
is_inherited(address) == address.kind \in {"Inherit", "InheritStdin", "SystemdNumeric"}

\* The descriptor an inherited address names.
RawOf(address) == IF address.kind = "InheritStdin" THEN 0 ELSE address.socket

\* The descriptors the process starts with.
InheritedFds == {d \in Fd : InitialFds(NotASocket)[d].kind # "closed"}

\* The end of the activation window the environment describes, if any, and
\* the half-open range of descriptors it covers.
Window == SdListenFdsEndInit(environ)
InWindow(index) ==
    is_some(Window) /\ SD_LISTEN_FDS_START <= index /\ index < unwrap(Window)

\* Inherit, InheritStdin, and SystemdNumeric inside the activation window.
InheritsByContract(address) ==
    \/ address.kind \in {"Inherit", "InheritStdin"}
    \/ address.kind = "SystemdNumeric" /\ InWindow(address.socket)

\* The options that do not apply to an inherited socket, among those set.
InapplicableSet(user_options) ==
    {n \in {"unix_socket_permissions", "unix_socket_owner", "unix_socket_group",
            "listen_socket_backlog"} : is_some(user_options[n])}
        \cup {n \in {"ip_socket_reuse_port", "ip_socket_v6_only"} : user_options[n]}

Ops(c) == {c.trace[i].op : i \in DOMAIN c.trace}

C5_Window ==
    \A t \in Threads :
        LET c == call[t] IN
        (Returned(t) /\ c.address.kind = "SystemdNumeric" /\ is_some(Window))
        => IF InWindow(c.address.socket)
           THEN ~Failed(t, "InvalidSystemdFd")
           ELSE Failed(t, "InvalidSystemdFd") /\ c.trace = <<>>

\* C6: with no activation window, open of SystemdNumeric{index} returns
\* InvalidSystemdFd for every index, without a system call.
C6_NoWindow ==
    \A t \in Threads :
        LET c == call[t] IN
        (Returned(t) /\ c.address.kind = "SystemdNumeric" /\ is_none(Window))
        => Failed(t, "InvalidSystemdFd") /\ c.trace = <<>>

\* The ports open has passed to bind.
BoundPorts(c) == {c.trace[i].arg.port : i \in {j \in DOMAIN c.trace : c.trace[j].op = "bind"}}

C8_TypeMismatch ==
    \A t \in Threads :
        LET c == call[t]
            src == FdState(fds, RawOf(c.address))
            E == c.app_options.type
            T == src.type
        IN  (/\ Returned(t)
             /\ InheritsByContract(c.address)
             /\ InapplicableSet(c.user_options) = {}
             /\ src.kind = "socket")
            => /\ E # T => Result(t) = Err(InheritWrongType(E, T))
               /\ E = T => ~Failed(t, "InheritWrongType")

C8_WrongType ==
    /\ Returned(1)
    /\ call[1].address = InheritStdin
    /\ fds[0] = SocketFd(DGRAM, FALSE)
    /\ call[1].app_options.type = STREAM
    /\ Result(1) = Err(InheritWrongType(STREAM, DGRAM))

\* C9: an open of an inherited socket of the requested type fails with
\* InheritedIsNotListening exactly when the platform answers the listening
\* query, the socket is a stream socket, app_options.listen is true and the
\* socket is not listening; with InheritedIsListening exactly in the mirrored
\* case; and otherwise (no query on the platform, a failed query, a socket that
\* is not a stream socket, or a matching state) it succeeds.
C9_ListeningCheck ==
    \A t \in Threads :
        LET c == call[t]
            src == FdState(fds, RawOf(c.address))
            known == platform = "ok" /\ src.type = STREAM
        IN  (/\ Returned(t)
             /\ InheritsByContract(c.address)
             /\ InapplicableSet(c.user_options) = {}
             /\ src.kind = "socket"
             /\ src.type = c.app_options.type)
            => /\ Failed(t, "InheritedIsNotListening")
                    <=> (known /\ c.app_options.listen /\ ~src.listening)
               /\ Failed(t, "InheritedIsListening")
                    <=> (known /\ ~c.app_options.listen /\ src.listening)
               /\ (~Failed(t, "InheritedIsNotListening") /\ ~Failed(t, "InheritedIsListening"))
                    => Result(t).ok

C9_UnknownIsNotFalse ==
    /\ Returned(1)
    /\ platform = "error"
    /\ call[1].address = Inherit(4)
    /\ fds[4] = SocketFd(STREAM, FALSE)
    /\ call[1].app_options = AppOptions(STREAM, TRUE, None, None, None)
    /\ "is_listener" \in Ops(call[1])
    /\ Result(1).ok

\* C10: when an open of a Unix path has succeeded and is repeated, the socket
\* it returned dropped or not, with no failure of the operating system: with
\* unix_socket_no_unlink false the repeated open succeeds, having deleted the
\* socket file the first one left; with unix_socket_no_unlink true it fails with
\* Bind carrying "address in use", deletes nothing, and the file stays in place.
C10_StaleSocketReplaced ==
    \A t \in Threads :
        LET c == call[t] IN
        (/\ Returned(t)
         /\ c.address.kind = "Unix"
         /\ c.fault = "none"
         /\ is_some(c.prev)
         /\ unwrap(c.prev).ok)
        => IF ~c.user_options.unix_socket_no_unlink
           THEN /\ Result(t).ok
                /\ "unlink" \in Ops(c)
                /\ fs[c.address.path].kind = "socket"
           ELSE /\ Result(t) = Err(OsError("Bind", "AddrInUse"))
                /\ "unlink" \notin Ops(c)
                /\ fs[c.address.path].kind = "socket"

C10_Replaced ==
    /\ Returned(1)
    /\ call[1].address.kind = "Unix"
    /\ call[1].fault = "none"
    /\ ~call[1].user_options.unix_socket_no_unlink
    /\ is_some(call[1].prev)
    /\ unwrap(call[1].prev).ok
    /\ unwrap(call[1].prev).val \notin held
    /\ "unlink" \in Ops(call[1])
    /\ Result(1).ok

-----------------------------------------------------------------------------
(* SocketAddr::cleanup and is_unix_socket, called on their own. *)

\* What may exist at a path: nothing, a socket, a regular file, a directory,
\* a symbolic link.
FileKinds == {"none", "socket", "file", "dir", "symlink"}

\* The trees in which a file exists only inside a directory.
FsTrees ==
    {tree \in [FsPaths -> {Absent} \cup {File(kind, 420) : kind \in FileKinds \ {"none"}}] :
        tree[<<".", "/", "d", "/", "s">>].kind # "none" => tree[<<".", "/", "d">>].kind = "dir"}

CleanupAddresses ==
    UnixAddresses \cup {Unix(<<".", "/", "d">>), Ip(Ipv4Addr(127, 0, 0, 1), None),
                        Inherit(3), InheritStdin, SystemdNumeric(3)}

\* SocketAddr::cleanup, up to its first system call.  A second call in a row
\* is on the same address.
CallCleanup(t, address, fault) ==
    /\ call[t].pc \in {"idle", "returned"}
    /\ (call[t].pc = "returned" /\ call[t].api = "cleanup")
            => (address = call[t].address /\ fault = call[t].fault)
    /\ LET c == [IdleCall EXCEPT !.api = "cleanup", !.address = address, !.fault = fault,
                                 !.before = fs,
                                 !.prev = IF call[t].api = "cleanup" THEN call[t].result
                                          ELSE None]
       IN  call' = [call EXCEPT ![t] = IF address.kind = "Unix"
                                       THEN [c EXCEPT !.pc = "stat"]
                                       ELSE Return(c, Ok(<<>>))]
    /\ UNCHANGED <<parseVars, procVars, fds, held, environ, SD_LISTEN_FDS_END, platform, umask, fs>>

\* is_unix_socket(path): one system call.
IsUnixSocket(t, path, fault) ==
    /\ call[t].pc \in {"idle", "returned"}
    /\ LET c == Did([IdleCall EXCEPT !.api = "is_unix_socket", !.address = Unix(path),
                                     !.fault = fault, !.before = fs],
                    "stat", path)
       IN  call' = [call EXCEPT ![t] =
                        Return(c, IF fault = "stat" THEN Err("PermissionDenied")
                                  ELSE is_unix_socket(fs, path))]
    /\ UNCHANGED <<parseVars, procVars, fds, held, environ, SD_LISTEN_FDS_END, platform, umask, fs>>

FsInit ==
    /\ ParseIdle
    /\ fds = InitialFds(NotASocket)
    /\ held = {}
    /\ environ = NoEnvironment
    /\ SD_LISTEN_FDS_END = None
    /\ platform = "ok"
    /\ umask = DefaultUmask
    /\ inheritable = NotCloexec(fds)
    /\ parentProcess = None
    /\ fs \in FsTrees
    /\ call = [t \in Threads |-> IdleCall]

FsNext ==
    \/ \E address \in CleanupAddresses, fault \in {"none", "stat", "unlink"} :
            CallCleanup(1, address, fault)
    \/ CleanupStat(1)
    \/ CleanupUnlink(1)
    \/ \E path \in FsPaths, fault \in {"none", "stat"} : IsUnixSocket(1, path, fault)

SpecFs == FsInit /\ [][FsNext]_vars

\* C11: without an I/O error, SocketAddr::cleanup returns Ok; on a Unix path
\* that held a socket the socket is gone and nothing else has changed; in every
\* other case (nothing at the path, a file that is not a socket, an address that
\* is not a Unix path) the file system is as it was and no file was deleted; and
\* a second call in a row returns the same result and changes nothing.
C11_CleanupTolerant ==
    \A t \in Threads :
        LET c == call[t]
            was == c.before[c.address.path]
        IN  (Returned(t) /\ c.api = "cleanup" /\ c.fault = "none") =>
            /\ Result(t) = Ok(<<>>)
            /\ (c.address.kind = "Unix" /\ was.kind = "socket")
                    => fs = [c.before EXCEPT ![c.address.path] = Absent]
            /\ (c.address.kind = "Unix" /\ was.kind # "socket")
                    => (fs = c.before /\ "unlink" \notin Ops(c))
            /\ c.address.kind # "Unix" => (fs = c.before /\ c.trace = <<>>)
            /\ is_some(c.prev) => (unwrap(c.prev) = Result(t) /\ fs = c.before)

C11_SocketDeleted ==
    /\ Returned(1)
    /\ call[1].api = "cleanup"
    /\ call[1].fault = "none"
    /\ call[1].address = Unix(<<"s">>)
    /\ call[1].before[<<"s">>].kind = "socket"
    /\ "unlink" \in Ops(call[1])
    /\ fs[<<"s">>] = Absent
    /\ \E p \in FsPaths : fs[p].kind = "file"
    /\ Result(1) = Ok(<<>>)

\* C20: without an I/O error, is_unix_socket(path) returns Ok(true) when a
\* socket is at the path, Ok(false) when something else is, and the error
\* NotFound when nothing is; the file system is as it was.
C20_IsUnixSocket ==
    \A t \in Threads :
        LET c == call[t]
            kind == c.before[c.address.path].kind
        IN  (Returned(t) /\ c.api = "is_unix_socket" /\ c.fault = "none") =>
            /\ kind = "socket" <=> Result(t) = Ok(TRUE)
            /\ kind \notin {"socket", "none"} <=> Result(t) = Ok(FALSE)
            /\ kind = "none" <=> Result(t) = Err("NotFound")
            /\ fs = c.before

C20_NotFound ==
    /\ Returned(1)
    /\ call[1].api = "is_unix_socket"
    /\ call[1].fault = "none"
    /\ fs[call[1].address.path].kind = "none"
    /\ Result(1) = Err("NotFound")


-----------------------------------------------------------------------------
(* The security attributes of a new path-based Unix-domain socket. *)

\* Mode::from_bits: the permission bits and set-id and sticky bits, 0o7777.
ModeBits == 0..4095

\* 0o000, 0o600, 0o777, 0o4755, 0o7777
Modes == {0, 384, 511, 2541, 4095}

\* 0o000, 0o022, 0o077, 0o777
Umasks == {0, DefaultUmask, 63, 511}

\* Unix paths opened with any of the security options, each mode among them,
\* with chown or chmod refused by the operating system or not.
PermRequests ==
    {[address |-> address,
      app_options |-> AppOptions(type, type = STREAM, None, None, None),
      user_options |-> [user_options EXCEPT
                            !.unix_socket_permissions = IF is_some(@) THEN Some(mode) ELSE @],
      fault |-> fault] :
        address \in UnixAddresses, type \in {STREAM, DGRAM},
        user_options \in UserOptionSets({"unix_socket_no_unlink", "unix_socket_permissions",
                                         "unix_socket_owner", "unix_socket_group"}),
        mode \in Modes, fault \in {"none", "chown", "chmod"}}

PermInit ==
    /\ ParseIdle
    /\ fds = InitialFds(NotASocket)
    /\ held = {}
    /\ environ = NoEnvironment
    /\ SD_LISTEN_FDS_END = None
    /\ platform = "ok"
    /\ umask \in Umasks
    /\ inheritable = NotCloexec(fds)
    /\ parentProcess = None
    /\ fs \in InitialFs
    /\ call = [t \in Threads |-> IdleCall]

PermNext ==
    \/ CallOpen(1, PermRequests)
    \/ CreateSocket(1)
    \/ CleanupStat(1)
    \/ CleanupUnlink(1)
    \/ MkdirParents(1)
    \/ Bind(1)
    \/ SetOwner(1)
    \/ SetPermissions(1)
    \/ Listen(1)
    \/ \E d \in Fd : Drop(d)

SpecPerm == PermInit /\ [][PermNext]_vars

\* C12: after open succeeds on a Unix path with unix_socket_permissions = m,
\* the socket file at the path has exactly the mode m on its 0o7777 bits,
\* whatever the umask of the process and whatever m, and whether or not an
\* owner or a group is set as well.
C12_ModeExact ==
    \A t \in Threads :
        LET c == call[t] IN
        (/\ Returned(t) /\ Result(t).ok
         /\ c.address.kind = "Unix"
         /\ is_some(c.user_options.unix_socket_permissions))
        => /\ fs[c.address.path].kind = "socket"
           /\ fs[c.address.path].mode \in ModeBits
           /\ fs[c.address.path].mode = unwrap(c.user_options.unix_socket_permissions)

\* A socket opened with mode 0o777 under umask 0o077, and with an owner set,
\* has mode 0o777.
C12_UmaskIgnored ==
    /\ Returned(1) /\ Result(1).ok
    /\ umask = 63
    /\ call[1].address.kind = "Unix"
    /\ call[1].user_options.unix_socket_permissions = Some(511)
    /\ is_some(call[1].user_options.unix_socket_owner)
    /\ "chmod" \in Ops(call[1])
    /\ fs[call[1].address.path].mode = 511
    /\ AndNot(511, umask) # 511

-----------------------------------------------------------------------------
(* The order of the steps of open_new. *)

\* The phase of open_new a system call belongs to: creation, clean-up and
\* parent directories, socket options, the hook, bind, security attributes,
\* listen.
Phase(op) ==
    CASE op = "socket" -> 1
      [] op \in {"stat", "unlink", "mkdir"} -> 2
      [] op \in {"SO_REUSEADDR", "SO_REUSEPORT", "IPV6_V6ONLY"} -> 3
      [] op = "before_bind" -> 4
      [] op = "bind" -> 5
      [] op \in {"chown", "chmod"} -> 6
      [] op = "listen" -> 7

\* The positions of a system call in the trace of a call.
Positions(c, op) == {i \in DOMAIN c.trace : c.trace[i].op = op}

\* C13: in every execution of open that creates a new socket, the steps that
\* occur do so in the order create socket, clean-up and parent directories,
\* socket options, bind, ownership and permissions, listen: the socket is
\* created first and once, no option is set after bind, no ownership or
\* permission change happens before bind or after listen, and a successful
\* open has created and bound the socket.
C13_StepOrder ==
    \A t \in Threads :
        LET c == call[t] IN
        ~is_inherited(c.address) =>
            /\ \A i, j \in DOMAIN c.trace :
                    i < j => Phase(c.trace[i].op) <= Phase(c.trace[j].op)
            /\ \A op \in {"socket", "bind", "listen"} : Cardinality(Positions(c, op)) <= 1
            /\ c.trace # <<>> => c.trace[1].op = "socket"
            /\ (Returned(t) /\ Result(t).ok) => {"socket", "bind"} \subseteq Ops(c)

\* An open that went through every phase: clean-up of a stale socket, a
\* socket option, bind, chmod and listen.
C13_EveryPhase ==
    /\ Returned(1) /\ Result(1).ok
    /\ {"socket", "stat", "unlink", "mkdir", "SO_REUSEPORT", "bind", "chmod", "listen"}
            \subseteq Ops(call[1])

\* Every position of `first` in the trace precedes every position of `second`.
Precedes(c, first, second) ==
    \A i \in Positions(c, first), j \in Positions(c, second) : i < j

\* C14: when an owner or group and a mode are requested for a Unix path,
\* chown is performed before chmod, both after a successful bind and before
\* listen, and an open that succeeds has performed both; if chown fails open
\* returns SetOwner and neither chmod nor listen is performed; if chmod fails
\* open returns SetPermissions and listen is not performed; in both cases the
\* bound socket file is left at the path.
C14_OwnerThenMode ==
    \A t \in Threads :
        LET c == call[t]
            o == c.user_options
            owned == is_some(o.unix_socket_owner) \/ is_some(o.unix_socket_group)
        IN  (c.pc # "idle" /\ c.address.kind = "Unix") =>
            /\ Precedes(c, "chown", "chmod")
            /\ Precedes(c, "bind", "chown") /\ Precedes(c, "bind", "chmod")
            /\ Precedes(c, "chown", "listen") /\ Precedes(c, "chmod", "listen")
            /\ \A op \in {"chown", "chmod"} :
                    /\ Cardinality(Positions(c, op)) <= 1
                    /\ op \in Ops(c) => "bind" \in Ops(c)
            /\ (Returned(t) /\ Result(t).ok) =>
                    /\ owned <=> "chown" \in Ops(c)
                    /\ is_some(o.unix_socket_permissions) <=> "chmod" \in Ops(c)
            /\ Failed(t, "SetOwner") =>
                    /\ c.trace[Len(c.trace)].op = "chown"
                    /\ "chmod" \notin Ops(c) /\ "listen" \notin Ops(c)
                    /\ fs[c.address.path].kind = "socket"
            /\ Failed(t, "SetPermissions") =>
                    /\ c.trace[Len(c.trace)].op = "chmod"
                    /\ "listen" \notin Ops(c)
                    /\ fs[c.address.path].kind = "socket"
            /\ (c.fault = "chown" /\ "chown" \in Ops(c)) => Failed(t, "SetOwner")
            /\ (c.fault = "chmod" /\ "chmod" \in Ops(c)) => Failed(t, "SetPermissions")

\* chmod failed after chown succeeded: open returned SetPermissions without
\* listening, and the socket file, already given its new owner, is still there.
C14_ChmodFailed ==
    /\ Failed(1, "SetPermissions")
    /\ WantsListen(call[1].app_options)
    /\ Ops(call[1]) \cap {"bind", "chown", "chmod", "listen"} = {"bind", "chown", "chmod"}
    /\ fs[call[1].address.path].kind = "socket"
    /\ call[1].user_options.unix_socket_owner = Some(1000)
    /\ fs[call[1].address.path].owner = 1000

-----------------------------------------------------------------------------
(* The before_bind hook, on new and on inherited sockets. *)

\* Hooks that succeed or fail with one of two errors, and no hook.
HookResults == {None, Some("Ok"), Some("Err"), Some("Interrupted")}

\* Every kind of address opened with and without a hook, with socket options
\* to set before it, and with a failure before or after it.
HookRequests ==
    [address : InheritAddresses \cup IpAddresses \cup UnixAddresses,
     app_options : {AppOptions(type, type = STREAM, Some(27910), hook, None) :
                        type \in {STREAM, DGRAM}, hook \in HookResults},
     user_options : UserOptionSets({"ip_socket_reuse_port", "ip_socket_v6_only"}),
     fault : {"none", "SO_REUSEPORT", "bind"}]

HookInit ==
    /\ ParseIdle
    /\ \E stdin \in StdinStates : fds = InitialFds(stdin)
    /\ held = {}
    /\ environ = Activated(2)
    /\ SD_LISTEN_FDS_END = None
    /\ platform = "ok"
    /\ umask = DefaultUmask
    /\ inheritable = NotCloexec(fds)
    /\ parentProcess = None
    /\ fs \in InitialFs
    /\ call = [t \in Threads |-> IdleCall]

HookNext ==
    \/ CallOpen(1, HookRequests)
    \/ DupInherited(1)
    \/ CheckType(1)
    \/ CheckListening(1)
    \/ CreateSocket(1)
    \/ CleanupStat(1)
    \/ CleanupUnlink(1)
    \/ MkdirParents(1)
    \/ \E option \in {"SO_REUSEADDR", "SO_REUSEPORT", "IPV6_V6ONLY"} : SetSockOpt(1, option)
    \/ BeforeBind(1)
    \/ Bind(1)
    \/ Listen(1)
    \/ \E d \in Fd : Drop(d)

SpecHook == HookInit /\ [][HookNext]_vars

\* C15: the before_bind hook is called at most once per open, and exactly
\* once, immediately before bind, in every open that binds a new socket; every
\* socket option the open sets has been set by then; if the hook returns an
\* error open returns BeforeBind with that same error and bind, chown, chmod
\* and listen are never performed; the hook is never called for an inherited
\* socket.
C15_BeforeBind ==
    \A t \in Threads :
        LET c == call[t]
            hook == c.app_options.before_bind
            options == {"SO_REUSEADDR", "SO_REUSEPORT", "IPV6_V6ONLY"}
        IN  c.pc # "idle" =>
            /\ is_inherited(c.address) => "before_bind" \notin Ops(c)
            /\ Cardinality(Positions(c, "before_bind")) <= 1
            /\ "before_bind" \in Ops(c) => is_some(hook)
            /\ is_some(hook) =>
                    \A i \in Positions(c, "bind") : i > 1 /\ c.trace[i - 1].op = "before_bind"
            /\ \A option \in options : Precedes(c, option, "before_bind")
            /\ "before_bind" \in Ops(c) =>
                    /\ c.user_options.ip_socket_reuse_port => "SO_REUSEPORT" \in Ops(c)
                    /\ c.user_options.ip_socket_v6_only => "IPV6_V6ONLY" \in Ops(c)
            /\ (Returned(t) /\ Result(t).ok /\ ~is_inherited(c.address) /\ is_some(hook)) =>
                    Cardinality(Positions(c, "before_bind")) = 1
            /\ ("before_bind" \in Ops(c) /\ hook # Some("Ok")) =>
                    /\ Failed(t, "BeforeBind")
                    /\ Result(t).err.error = unwrap(hook)
                    /\ Ops(c) \cap {"bind", "chown", "chmod", "listen"} = {}
            /\ Failed(t, "BeforeBind") => (is_some(hook) /\ hook # Some("Ok"))

\* A hook that failed after a socket option was set: open returned its error.
C15_HookFailed ==
    /\ Failed(1, "BeforeBind")
    /\ Result(1).err.error = "Interrupted"
    /\ call[1].app_options.before_bind = Some("Interrupted")
    /\ "SO_REUSEPORT" \in Ops(call[1])
    /\ "bind" \notin Ops(call[1])

-----------------------------------------------------------------------------
(* Options that do not apply to the socket open_new is to create. *)

\* The options of a Unix path, in the order prepare checks them.
UnixSecurityOptions == <<"unix_socket_permissions", "unix_socket_owner", "unix_socket_group">>

\* Those of them that the user set.
UnixSecuritySet(user_options) ==
    {i \in DOMAIN UnixSecurityOptions : is_some(user_options[UnixSecurityOptions[i]])}

\* The address is Ip and neither it nor the application gives a port.
PortUnresolved(c) ==
    /\ c.address.kind = "Ip"
    /\ is_none(c.address.port)
    /\ is_none(c.app_options.default_port)

\* The backlog open_new is to pass to listen: the user's if set, else the default.
ExpectedBacklog(user_options) ==
    IF is_some(user_options.listen_socket_backlog)
    THEN unwrap(user_options.listen_socket_backlog)
    ELSE DEFAULT_LISTEN_SOCKET_BACKLOG

\* open returned the error InapplicableUserOption naming `name`, before any
\* system call.
Inapplicable(t, name) ==
    /\ Failed(t, "InapplicableUserOption")
    /\ Result(t).err.name = name
    /\ call[t].trace = <<>>

\* open_new calls listen only when app_options.listen is true and the type is
\* STREAM, with the user's backlog if set and else 128, and a successful open
\* of such a socket has called it.
ListenAsConfigured(t) ==
    LET c == call[t] IN
    /\ \A i \in Positions(c, "listen") :
            WantsListen(c.app_options) /\ c.trace[i].arg = ExpectedBacklog(c.user_options)
    /\ (Returned(t) /\ Result(t).ok) => ("listen" \in Ops(c) <=> WantsListen(c.app_options))

C18_AsStated ==
    \A t \in Threads :
        LET c == call[t]
            set == UnixSecuritySet(c.user_options)
        IN  /\ (Returned(t) /\ c.address.kind = "Ip" /\ set # {}) =>
                    \E i \in set : Inapplicable(t, UnixSecurityOptions[i])
            /\ (Returned(t) /\ c.address.kind = "Unix") =>
                    ~\E i \in DOMAIN UnixSecurityOptions :
                        /\ Failed(t, "InapplicableUserOption")
                        /\ Result(t).err.name = UnixSecurityOptions[i]

\* C18, amended: as stated when the port of the Ip address is given or
\* defaulted, and then the option named is the first that is set, in the
\* order permissions, owner, group; an Ip address without a port yields
\* PortRequired instead, also before any socket is created.
C18_UnixOptionsOnIp ==
    \A t \in Threads :
        LET c == call[t]
            set == UnixSecuritySet(c.user_options)
        IN  /\ (Returned(t) /\ c.address.kind = "Ip" /\ set # {}) =>
                    /\ c.trace = <<>>
                    /\ IF PortUnresolved(c) THEN Failed(t, "PortRequired")
                       ELSE \E i \in set :
                                /\ \A j \in set : i <= j
                                /\ Inapplicable(t, UnixSecurityOptions[i])
            /\ (Returned(t) /\ c.address.kind = "Unix") =>
                    ~\E i \in DOMAIN UnixSecurityOptions :
                        /\ Failed(t, "InapplicableUserOption")
                        /\ Result(t).err.name = UnixSecurityOptions[i]

\* An owner and a group set on an Ip address with a port: the owner is named.
C18_OwnerRejected ==
    /\ Inapplicable(1, "unix_socket_owner")
    /\ call[1].address.kind = "Ip"
    /\ ~PortUnresolved(call[1])
    /\ is_some(call[1].user_options.unix_socket_group)

\* What open does, up to its first system call, when called as call c was but
\* with listen_socket_backlog unset.
WithBacklogUnset(c) ==
    open([IdleCall EXCEPT !.pc = "open", !.address = c.address,
                          !.app_options = c.app_options,
                          !.user_options = [c.user_options EXCEPT
                                                !.listen_socket_backlog = None],
                          !.fault = c.fault, !.prev = c.prev],
         SD_LISTEN_FDS_END)

\* C17: listen_socket_backlog is ignored for a datagram socket, a stream
\* socket with listen = false, and an inherited socket: an open with it set
\* that returns before any system call returns what the same open with it
\* unset returns, and so never fails where that one goes on.
C17_BacklogIgnored ==
    \A t \in Threads :
        LET c == call[t] IN
        (/\ Returned(t)
         /\ c.api = "open"
         /\ is_some(c.user_options.listen_socket_backlog)
         /\ (is_inherited(c.address) \/ ~WantsListen(c.app_options))
         /\ c.trace = <<>>)
        => /\ WithBacklogUnset(c).pc = "returned"
           /\ WithBacklogUnset(c).result = c.result

-----------------------------------------------------------------------------
(* Parsing strings that begin with fd: or socket:. *)

\* Longest suffix drawn character by character.
MaxSuffixLen == 3

SuffixChars == {"0", "1", "9", "-", "+", "/", ".", ":", "x"}

\* What follows the prefix: short strings over digits, signs and the
\* characters of paths and IP addresses, and numbers around the 32-bit limits.
Suffixes ==
    BoundedSeq(SuffixChars, MaxSuffixLen)
        \cup { <<"3", "1", "3", "3", "7">>,
               <<"2", "1", "4", "7", "4", "8", "3", "6", "4", "7">>,
               <<"2", "1", "4", "7", "4", "8", "3", "6", "4", "8">>,
               <<"-", "2", "1", "4", "7", "4", "8", "3", "6", "4", "8">>,
               <<"0", "0", "0", "0", "0", "0", "0", "0", "0", "0", "7">> }

PrefixInit ==
    /\ pOrig = InheritStdin
    /\ pAddr = InheritStdin
    /\ \E prefix \in {RAW_FD_PREFIX, RAW_SOCKET_PREFIX}, s \in Suffixes :
            pText = Some(prefix \o s)
    /\ pResult = None
    /\ pRound = 0
    /\ OpenIdle

PrefixNext == Parse

SpecPrefix == PrefixInit /\ [][PrefixNext]_vars

\* The suffix of a string that begins with fd: or socket:.
SuffixOf(s) ==
    IF starts_with(s, RAW_FD_PREFIX) THEN SubSeq(s, Len(RAW_FD_PREFIX) + 1, Len(s))
    ELSE SubSeq(s, Len(RAW_SOCKET_PREFIX) + 1, Len(s))

\* The number a string of decimal digits stands for, or -1 when it is more
\* than a descriptor can hold.
RECURSIVE DecimalValue(_)
DecimalValue(s) ==
    IF s = <<>> THEN 0
    ELSE LET high == DecimalValue(SubSeq(s, 1, Len(s) - 1))
             low == DigitVal(s[Len(s)])
         IN  IF high < 0 \/ high > (I32_MAX - low) \div 10 THEN -1 ELSE 10 * high + low

\* The decimal form of an unsigned integer that a descriptor can hold: digits
\* only, at least one, no sign.
IsUnsigned(s) ==
    /\ s # <<>>
    /\ \A i \in DOMAIN s : IsDigit(s[i])
    /\ DecimalValue(s) >= 0

\* C19: for every suffix s, parse("fd:" + s) and parse("socket:" + s) give
\* the same result, which is Inherit{socket = n} when s is the decimal form of
\* an unsigned integer n and InvalidSocketNum otherwise: empty, signed and
\* non-numeric suffixes are rejected, and the string is never taken for a Unix
\* path or an IP address and never yields Unrecognized.
C19_PrefixedNumber ==
    is_some(pResult) =>
        LET s == SuffixOf(unwrap(pText))
            r == unwrap(pResult)
        IN  /\ r = from_str(RAW_FD_PREFIX \o s)
            /\ r = from_str(RAW_SOCKET_PREFIX \o s)
            /\ r = IF IsUnsigned(s) THEN Ok(Inherit(DecimalValue(s)))
                   ELSE Err("InvalidSocketNum")

-----------------------------------------------------------------------------
(* unix_security::parse_mode *)

\* Longest mode string drawn character by character.
MaxModeLen == 4

ModeChars == {"0", "2", "4", "7", "8", "u", "g", "o", "-", "+"}

\* The strings of test_parse_mode, numbers at the limit of mode_t, and
\* every short string over digits, letters and signs.
ModeStrings ==
    BoundedSeq(ModeChars, MaxModeLen)
        \cup { <<"7", "7", "7", "7", "7">>,
               <<"-", "u", "-", "g", "-", "o", "-">>,
               <<"o", "g", "u", "u", "g", "o">>,
               <<"0", "0", "0", "0", "0", "0", "6", "4", "4">>,
               <<"3", "7", "7", "7", "7", "7", "7", "7", "7", "7", "7">>,
               <<"4", "0", "0", "0", "0", "0", "0", "0", "0", "0", "0">> }

\* A mode_t (u32) as two 16-bit halves, so that its overflow can be told.
Halves(high, low) == [high |-> high, low |-> low]

\* mode_t::from_str_radix(digits, 8) on the digits that follow the sign.
RECURSIVE from_str_radix_digits(_, _)
from_str_radix_digits(digits, acc) ==
    IF digits = <<>> THEN Some(acc)
    ELSE IF ~(IsDigit(Head(digits)) /\ DigitVal(Head(digits)) < 8) THEN None
    ELSE LET low == acc.low * 8 + DigitVal(Head(digits))
             high == acc.high * 8 + low \div 65536
         IN  IF high > U16_MAX THEN None
             ELSE from_str_radix_digits(Tail(digits), Halves(high, low % 65536))

\* mode_t::from_str_radix(mode_str, 8): an unsigned type takes a leading
\* "+" but no "-", and at least one digit.
from_str_radix(mode_str) ==
    IF mode_str = <<>> \/ mode_str = <<"+">> \/ mode_str = <<"-">> THEN None
    ELSE IF Head(mode_str) = "+" THEN from_str_radix_digits(Tail(mode_str), Halves(0, 0))
    ELSE from_str_radix_digits(mode_str, Halves(0, 0))

\* Mode::from_bits: the bits must all be bits of Mode, 0o7777.
from_bits(i) == IF i.high = 0 /\ i.low \in ModeBits THEN Some(i.low) ELSE None

\* The bits added, not or-ed.
BitSum(a, b) == a + b

\* a | b on permission bits
RECURSIVE BitOr(_, _)
BitOr(a, b) ==
    IF a = 0 /\ b = 0 THEN 0
    ELSE (IF a % 2 = 1 \/ b % 2 = 1 THEN 1 ELSE 0) + 2 * BitOr(a \div 2, b \div 2)

\* The bits a letter stands for: S_IRUSR | S_IWUSR, S_IRGRP | S_IWGRP,
\* S_IROTH | S_IWOTH, nothing for "-".
LetterBits(byte) ==
    CASE byte = "-" -> Some(0)
      [] byte = "u" -> Some(384)
      [] byte = "g" -> Some(48)
      [] byte = "o" -> Some(6)
      [] OTHER -> None

\* for byte in mode_str.bytes() { mode |= match byte {..} }
RECURSIVE parse_letters(_, _)
parse_letters(bytes, mode) ==
    IF bytes = <<>> THEN Ok(mode)
    ELSE IF is_none(LetterBits(Head(bytes))) THEN Err("UnixSocketPermissionsParseError")
    ELSE parse_letters(Tail(bytes), BitOr(mode, unwrap(LetterBits(Head(bytes)))))

\* parse_mode
parse_mode(mode_str) ==
    LET i == from_str_radix(mode_str) IN
    IF is_some(i)
    THEN IF is_some(from_bits(unwrap(i))) THEN Ok(unwrap(from_bits(unwrap(i))))
         ELSE Err("UnixSocketPermissionsParseError")
    ELSE parse_letters(mode_str, 0)

ModeInit ==
    /\ pOrig = InheritStdin
    /\ pAddr = InheritStdin
    /\ \E mode_str \in ModeStrings : pText = Some(mode_str)
    /\ pResult = None
    /\ pRound = 0
    /\ OpenIdle

\* parse_mode(mode_str)
ParseMode ==
    /\ is_some(pText)
    /\ is_none(pResult)
    /\ pResult' = Some(parse_mode(unwrap(pText)))
    /\ UNCHANGED <<pOrig, pAddr, pText, pRound, openVars>>

ModeNext == ParseMode

SpecMode == ModeInit /\ [][ModeNext]_vars

\* The characters of a string.
CharsOf(s) == {s[i] : i \in DOMAIN s}

\* The number a string of octal digits stands for, when it has at most four
\* significant digits, and else a number beyond every mode.
RECURSIVE OctalValue(_)
OctalValue(s) ==
    IF s = <<>> THEN 0
    ELSE IF Head(s) = "0" THEN OctalValue(Tail(s))
    ELSE IF Len(s) > 4 THEN 4096
    ELSE DigitVal(Head(s)) * (CASE Len(s) = 1 -> 1 [] Len(s) = 2 -> 8
                                [] Len(s) = 3 -> 64 [] Len(s) = 4 -> 512)
            + OctalValue(Tail(s))

\* 0o600 for u, 0o060 for g, 0o006 for o.
LetterUnion(letters) ==
    (IF "u" \in letters THEN 384 ELSE 0) + (IF "g" \in letters THEN 48 ELSE 0)
        + (IF "o" \in letters THEN 6 ELSE 0)

\* C21: a string that parses as an octal number (digits 0 to 7, which
\* mode_t::from_str_radix takes with a leading "+" as well) is accepted iff
\* its value has only bits of 0o7777, and gives that value; any other string
\* is accepted iff it consists only of the characters u, g, o and -, and gives
\* the union of 0o600, 0o060 and 0o006 for the letters in it, whatever their
\* order and repetition; every other string is an error.
C21_ParseMode ==
    is_some(pResult) =>
        LET s == unwrap(pText)
            digits == IF s # <<>> /\ Head(s) = "+" THEN Tail(s) ELSE s
            octal == digits # <<>> /\ CharsOf(digits) \subseteq {"0", "1", "2", "3", "4", "5", "6", "7"}
        IN  unwrap(pResult) =
                IF octal
                THEN IF OctalValue(digits) \in ModeBits THEN Ok(OctalValue(digits))
                     ELSE Err("UnixSocketPermissionsParseError")
                ELSE IF CharsOf(s) \subseteq {"u", "g", "o", "-"} THEN Ok(LetterUnion(CharsOf(s)))
                ELSE Err("UnixSocketPermissionsParseError")

\* "-u-g-o-" and a string with letters repeated both give 0o666.
C21_LettersRepeated ==
    /\ pText \in {Some(<<"o", "g", "u", "u", "g", "o">>), Some(<<"u", "u", "g", "o">>)}
    /\ pResult = Some(Ok(438))

-----------------------------------------------------------------------------
(* impl TryFrom<Socket> for AnyStdSocket *)

\* Platforms by what they can report about a socket: its protocol and its
\* listening state (Linux), the listening state only (AIX), neither (macOS).
Platforms == {"linux", "aix", "macos"}

\* The sockets converted: Internet-domain stream sockets are TCP or SCTP,
\* Internet-domain datagram sockets UDP, Unix-domain sockets have no protocol;
\* a stream socket is listening, connected or neither.
ConvertSockets ==
    {[domain |-> domain, type |-> type, protocol |-> protocol, state |-> state, os |-> os] :
        domain \in {"IPV4", "IPV6", "UNIX"}, type \in {STREAM, DGRAM},
        protocol \in {"TCP", "UDP", "SCTP", "none"},
        state \in {"listening", "connected", "unconnected"}, os \in Platforms}

ConvertInputs ==
    {sock \in ConvertSockets :
        /\ sock.domain = "UNIX" <=> sock.protocol = "none"
        /\ sock.protocol = "UDP" <=> (sock.domain # "UNIX" /\ sock.type = DGRAM)
        /\ sock.state = "listening" => sock.type = STREAM}

\* socket.protocol(), where the platform has it
socket_protocol(sock) ==
    IF sock.os = "linux" /\ sock.protocol # "none" THEN Some(sock.protocol) ELSE None

\* Some(socket.is_listener()?), where the platform has it
socket_is_listening(sock) ==
    IF sock.os \in {"linux", "aix"} THEN Some(sock.state = "listening") ELSE None

\* is_connected, from socket.peer_addr()
socket_is_connected(sock) ==
    IF sock.type # STREAM \/ socket_is_listening(sock) = Some(TRUE) THEN FALSE
    ELSE sock.state = "connected"

\* The match on (domain, type, protocol, is_listening, is_connected)
AnyStdSocket(domain, type, protocol, is_listening, is_connected) ==
    LET inet == domain \in {"IPV4", "IPV6"}
        listener == is_listening \in {None, Some(TRUE)} /\ ~is_connected
        stream == is_listening = Some(FALSE) /\ is_connected
    IN  CASE (inet /\ type = STREAM /\ protocol = None /\ listener)
                \/ (protocol = Some("TCP") /\ listener) -> "TcpListener"
          [] (inet /\ type = STREAM /\ protocol = None /\ stream)
                \/ (protocol = Some("TCP") /\ stream) -> "TcpStream"
          [] (inet /\ type = DGRAM /\ protocol = None)
                \/ protocol = Some("UDP") -> "UdpSocket"
          [] domain = "UNIX" /\ type = STREAM /\ listener -> "UnixListener"
          [] domain = "UNIX" /\ type = STREAM /\ stream -> "UnixStream"
          [] domain = "UNIX" /\ type = DGRAM -> "UnixDatagram"
          [] OTHER -> "Other"

\* AnyStdSocket::try_from(socket)
try_from(sock) ==
    Ok(AnyStdSocket(sock.domain, sock.type, socket_protocol(sock),
                    socket_is_listening(sock), socket_is_connected(sock)))

ConvertInit ==
    /\ pOrig = InheritStdin
    /\ pAddr = InheritStdin
    /\ \E sock \in ConvertInputs : pText = Some(sock)
    /\ pResult = None
    /\ pRound = 0
    /\ OpenIdle

\* socket.try_into()
Convert ==
    /\ is_some(pText)
    /\ is_none(pResult)
    /\ pResult' = Some(try_from(unwrap(pText)))
    /\ UNCHANGED <<pOrig, pAddr, pText, pRound, openVars>>

ConvertNext == Convert

SpecConvert == ConvertInit /\ [][ConvertNext]_vars

\* C22: a stream socket of TCP or of the Unix domain that is listening maps
\* to TcpListener or UnixListener, one that is connected maps to TcpStream or
\* UnixStream, and one that is neither maps to Other, on every platform,
\* except that a socket that is neither maps to the listener variant where
\* the platform cannot report the listening state.
C22_StreamSockets ==
    is_some(pResult) =>
        LET sock == unwrap(pText)
            unix == sock.domain = "UNIX"
            assumed == sock.os = "macos" /\ sock.state = "unconnected"
        IN  (sock.type = STREAM /\ sock.protocol \in {"TCP", "none"}) =>
                unwrap(pResult) =
                    Ok(CASE sock.state = "listening" \/ assumed ->
                                IF unix THEN "UnixListener" ELSE "TcpListener"
                         [] sock.state = "connected" ->
                                IF unix THEN "UnixStream" ELSE "TcpStream"
                         [] OTHER -> "Other")

-----------------------------------------------------------------------------
(* make_socket_inheritable, and a child process that inherits the socket. *)

\* set_cloexec with the flag taken as given, not negated.
set_cloexec_of(flags, d, inheritable_arg) ==
    IF inheritable_arg THEN flags \ {d} ELSE flags \cup {d}

\* socket.set_cloexec(!inheritable): the descriptors with FD_CLOEXEC clear,
\* after the call.
set_cloexec_not(flags, d, inheritable_arg) ==
    IF ~inheritable_arg THEN flags \ {d} ELSE flags \cup {d}

\* make_socket_inheritable(&socket, inheritable_arg) on a Socket the caller
\* holds: fcntl(F_SETFD), then as_raw_fd.  The process that calls it is the one
\* that goes on to spawn a child.
MakeInheritable(t, d, inheritable_arg, fault) ==
    /\ call[t].pc \in {"idle", "returned"}
    /\ is_none(parentProcess)
    /\ d \in held
    /\ LET c == Did([IdleCall EXCEPT !.api = "make_socket_inheritable", !.raw = d,
                                     !.fault = fault],
                    "set_cloexec", ~inheritable_arg)
       IN  IF fault = "set_cloexec"
           THEN /\ call' = [call EXCEPT ![t] = Return(c, Err("EBADF"))]
                /\ UNCHANGED inheritable
           ELSE /\ call' = [call EXCEPT ![t] = Return(c, Ok(d))]
                /\ inheritable' = set_cloexec_not(inheritable, d, inheritable_arg)
    /\ UNCHANGED <<parseVars, parentProcess, fds, held, environ, SD_LISTEN_FDS_END, platform,
                   umask, fs>>

\* Command::spawn: the child starts with the descriptors of the parent that
\* have FD_CLOEXEC clear, and the model goes on as the child.
Spawn ==
    /\ is_none(parentProcess)
    /\ InFlight = {}
    /\ parentProcess' = Some([fds |-> fds, held |-> held,
                               spawned |-> [held |-> held, inheritable |-> inheritable]])
    /\ fds' = [d \in DOMAIN fds |-> IF d \in inheritable THEN fds[d] ELSE Closed]
    /\ held' = {}
    /\ call' = [t \in Threads |-> IdleCall]
    /\ SD_LISTEN_FDS_END' = None
    /\ UNCHANGED <<parseVars, inheritable, environ, platform, umask, fs>>

\* The parent drops a Socket it holds, after the child was spawned.
ParentDrop(d) ==
    /\ is_some(parentProcess)
    /\ d \in unwrap(parentProcess).held
    /\ parentProcess' = Some([unwrap(parentProcess) EXCEPT
                                !.fds[d] = Closed, !.held = @ \ {d}])
    /\ UNCHANGED <<parseVars, inheritable, fds, held, environ, SD_LISTEN_FDS_END, platform,
                   umask, fs, call>>

\* The parent opens TCP and UDP sockets on an ephemeral port; the child opens
\* fd:3 and fd:4, the first two descriptors the parent may have handed down.
SpawnAddresses == {Ip(Ipv4Addr(127, 0, 0, 1), Some(0)), Inherit(3), Inherit(4)}

AllSpawnRequests ==
    [address : SpawnAddresses,
     app_options : {AppOptions(type, type = STREAM, None, None, None) :
                        type \in {STREAM, DGRAM}},
     user_options : {UserOptionsSetting({})},
     fault : {"none"}]

SpawnRequests ==
    {req \in AllSpawnRequests : req.address.kind = "Ip" <=> is_none(parentProcess)}

\* A process with only the standard streams open.
SpawnInit ==
    /\ ParseIdle
    /\ fds = [d \in Fd |-> IF d \in {0, 1, 2} THEN NotASocket ELSE Closed]
    /\ held = {}
    /\ environ = NoEnvironment
    /\ SD_LISTEN_FDS_END = None
    /\ platform = "ok"
    /\ umask = DefaultUmask
    /\ inheritable = NotCloexec(fds)
    /\ parentProcess = None
    /\ fs = [p \in FsPaths |-> Absent]
    /\ call = [t \in Threads |-> IdleCall]

SpawnNext ==
    \/ CallOpen(1, SpawnRequests)
    \/ CreateSocket(1)
    \/ SetSockOpt(1, "SO_REUSEADDR")
    \/ Bind(1)
    \/ Listen(1)
    \/ \E d \in Fd, inheritable_arg \in BOOLEAN, fault \in {"none", "set_cloexec"} :
            MakeInheritable(2, d, inheritable_arg, fault)
    \/ Spawn
    \/ \E d \in Fd : ParentDrop(d)
    \/ DupInherited(1)
    \/ CheckType(1)
    \/ CheckListening(1)
    \/ \E d \in Fd : Drop(d)

SpecSpawn == SpawnInit /\ [][SpawnNext]_vars

\* A step in which make_socket_inheritable returns.
MadeInheritable(t) ==
    /\ call'[t] # call[t]
    /\ call'[t].api = "make_socket_inheritable"
    /\ call'[t].pc = "returned"

\* make_socket_inheritable(socket, b), on success, leaves FD_CLOEXEC of the
\* socket equal to not b, whatever it was, returns the descriptor of that
\* socket, and changes no other descriptor and no flag of another descriptor.
InheritableAsAsked ==
    \A t \in Threads :
        (MadeInheritable(t) /\ unwrap(call'[t].result).ok) =>
            LET d == call'[t].raw
                b == ~call'[t].trace[1].arg
            IN  /\ unwrap(call'[t].result) = Ok(d)
                /\ d \in held
                /\ d \in inheritable' <=> b
                /\ \A e \in Fd \ {d} : e \in inheritable' <=> e \in inheritable
                /\ fds' = fds /\ held' = held

\* In a child process, the first open of fd:n succeeds when n was a socket
\* of the parent with FD_CLOEXEC clear at the spawn and the type and
\* listening state asked for are its own, whether or not the parent has closed
\* its copy since; and fails with DupInherited when FD_CLOEXEC was set.
\* (spawned: what the parent held, and which descriptors had FD_CLOEXEC clear,
\* at the spawn.)
ChildInherits ==
    \A t \in Threads :
        LET c == call[t] IN
        (/\ is_some(parentProcess)
         /\ Returned(t) /\ c.api = "open" /\ is_none(c.prev)
         /\ c.address.kind = "Inherit"
         /\ c.address.socket \in unwrap(parentProcess).spawned.held)
        => LET p == unwrap(parentProcess).spawned
               d == c.address.socket
           IN  IF d \in p.inheritable
               THEN Result(t).ok
                    <=> (/\ fds[d].type = c.app_options.type
                         /\ fds[d].listening = c.app_options.listen)
               ELSE Failed(t, "DupInherited")

\* C23: make_socket_inheritable(socket, b) on success leaves the socket
\* inheritable by child processes iff b is true, returns the descriptor of
\* that same socket and changes no other descriptor, and the last call wins;
\* a socket made inheritable before a child is spawned can be opened in the
\* child as fd:<returned handle>, also after the parent has closed its copy,
\* and one that was not cannot.
C23_MakeInheritable == []ChildInherits /\ [][InheritableAsAsked]_vars

\* The child has opened fd:n, a listening socket the parent made inheritable
\* and has closed since the spawn.
C23_ChildOpened ==
    /\ is_some(parentProcess)
    /\ Returned(1) /\ Result(1).ok
    /\ call[1].address.kind = "Inherit"
    /\ call[1].address.socket \in unwrap(parentProcess).spawned.held
    /\ call[1].address.socket \in unwrap(parentProcess).spawned.inheritable
    /\ unwrap(parentProcess).fds[call[1].address.socket].kind = "closed"
    /\ fds[call[1].address.socket].listening

-----------------------------------------------------------------------------
(* SocketAddr::resolve_base_dir. *)

\* Path::is_absolute on a Unix-like platform: the path has a root.
is_absolute(path) == starts_with(path, <<"/">>)

\* A join that always puts a separator between the two paths.
join_with_separator(base_dir, path) == base_dir \o <<"/">> \o path

\* Path::join, that is PathBuf::push on a copy: an absolute path replaces the
\* base; otherwise a separator is added unless the base is empty or ends
\* with one.
join(base_dir, path) ==
    IF is_absolute(path) THEN path
    ELSE IF base_dir # <<>> /\ base_dir[Len(base_dir)] # "/"
    THEN base_dir \o <<"/">> \o path
    ELSE base_dir \o path

\* SocketAddr::resolve_base_dir(&mut self, base_dir): the address afterwards.
resolve_base_dir(address, base_dir) ==
    IF address.kind = "Unix"
    THEN IF ~is_absolute(address.path)
         THEN Unix(join(base_dir, address.path))
         ELSE address
    ELSE address

\* The addresses resolve_base_dir is run on, and the base directories.
ResolveAddrs ==
    {Unix(path) : path \in {<<"s">>, <<"d", "/", "s">>, <<>>, <<"/", "s">>, <<"/">>}}
        \cup {Ip(Ipv4Addr(127, 0, 0, 1), Some(0)), Inherit(3), InheritStdin,
              SystemdNumeric(3)}

BaseDirs == {<<>>, <<".">>, <<".", "/", "d">>, <<".", "/">>, <<"/">>, <<"/", "d">>,
             <<"/", "d", "/">>}

\* pAddr is the address, pText the base directory, pRound the number of
\* calls made and pResult the address as it was before the last call.
ResolveInit ==
    /\ pOrig \in ResolveAddrs
    /\ pAddr = pOrig
    /\ pText \in {Some(base_dir) : base_dir \in BaseDirs}
    /\ pResult = None
    /\ pRound = 0
    /\ fds = InitialFds(NotASocket)
    /\ held = {}
    /\ environ = Activated(1)
    /\ SD_LISTEN_FDS_END = None
    /\ platform = "ok"
    /\ umask = DefaultUmask
    /\ inheritable = NotCloexec(fds)
    /\ parentProcess = None
    /\ fs = [p \in FsPaths |-> Absent]
    /\ call = [t \in Threads |-> IdleCall]

\* address.resolve_base_dir(base_dir), while no call borrows the address.
ResolveBaseDir ==
    /\ pRound < 2
    /\ InFlight = {}
    /\ pAddr' = resolve_base_dir(pAddr, unwrap(pText))
    /\ pResult' = Some(pAddr)
    /\ pRound' = pRound + 1
    /\ UNCHANGED <<pOrig, pText, openVars>>

\* open(&address, ..) for a listening stream socket, with the default options.
\* The addresses as they are after no, one and two calls.
ResolvedAddrs ==
    LET once == {resolve_base_dir(address, base_dir) :
                    address \in ResolveAddrs, base_dir \in BaseDirs}
        twice == {resolve_base_dir(address, base_dir) : address \in once, base_dir \in BaseDirs}
    IN  ResolveAddrs \cup once \cup twice

AllResolveRequests ==
    [address : ResolvedAddrs,
     app_options : {AppOptions(STREAM, TRUE, None, None, None)},
     user_options : {UserOptionsSetting({})},
     fault : {"none"}]

ResolveRequests == {req \in AllResolveRequests : req.address = pAddr}

ResolveNext ==
    \/ ResolveBaseDir
    \/ CallOpen(1, ResolveRequests)
    \/ DupInherited(1)
    \/ CheckType(1)
    \/ CheckListening(1)
    \/ CreateSocket(1)
    \/ CleanupStat(1)
    \/ CleanupUnlink(1)
    \/ MkdirParents(1)
    \/ SetSockOpt(1, "SO_REUSEADDR")
    \/ Bind(1)
    \/ Listen(1)
    \/ \E d \in Fd : Drop(d)
    \/ CallCleanup(2, pAddr, "none")
    \/ CleanupStat(2)
    \/ CleanupUnlink(2)

SpecResolve == ResolveInit /\ [][ResolveNext]_vars

\* base joined with path, as Path::join documents it.
Joined(base_dir, path) ==
    CASE base_dir = <<>> -> path
      [] base_dir # <<>> /\ base_dir[Len(base_dir)] = "/" -> base_dir \o path
      [] OTHER -> base_dir \o <<"/">> \o path

\* After one call the address is the original one, unless that was a Unix
\* address with a relative path, which is now the base joined with the path;
\* after two calls with an absolute base it is what it was after one.
Resolved ==
    LET base_dir == unwrap(pText)
        relative == pOrig.kind = "Unix" /\ (pOrig.path = <<>> \/ pOrig.path[1] # "/")
    IN  /\ (pRound >= 1 /\ ~relative) => pAddr = pOrig
        /\ (pRound = 1 /\ relative) => pAddr = Unix(Joined(base_dir, pOrig.path))
        /\ (pRound = 2 /\ base_dir # <<>> /\ base_dir[1] = "/") => pAddr = unwrap(pResult)

\* The address changes only in a step of resolve_base_dir, and the address a
\* call of open or cleanup works on is the same from its first step to its
\* return.
AddressKept ==
    /\ pAddr' # pAddr => pRound' = pRound + 1
    /\ \A t \in Threads :
            (call[t].pc \notin {"idle", "returned"} /\ call'[t].api = call[t].api)
                => (call'[t].address = call[t].address /\ pAddr' = call[t].address)

\* C24: resolve_base_dir(base) changes a SocketAddr only when it is a Unix
\* variant with a relative path, replacing the path by base joined with it;
\* an absolute Unix path and every other variant are left unchanged; with an
\* absolute base a second call changes nothing; open and cleanup never change
\* the address.
C24_ResolveBaseDir == []Resolved /\ [][AddressKept]_vars

\* A relative Unix path was resolved twice against an absolute base that does
\* not end with a separator, and cleanup has run on the resolved address.
C24_ResolvedTwice ==
    /\ pRound = 2
    /\ pOrig = Unix(<<"s">>)
    /\ unwrap(pText) = <<"/", "d">>
    /\ pAddr = Unix(<<"/", "d", "/", "s">>)
    /\ call[2].pc = "returned" /\ call[2].api = "cleanup" /\ call[2].address = pAddr

-----------------------------------------------------------------------------
(* impl From<OpenSocketError> for io::Error. *)

\* io::Error::kind() of an operating system error or of a hook's error: the
\* model names an error by its errno or directly by its kind.
kind(error) ==
    CASE error = "EOPNOTSUPP" -> "Unsupported"
      [] error \in {"EBADF", "ENOTSOCK", "EAFNOSUPPORT", "ENOPROTOOPT"} -> "Uncategorized"
      [] error = "Err" -> "Other"
      [] OTHER -> error

\* The variants whose arm is error.kind().
KindPreserved ==
    {"InvalidUnixPath", "CreateSocket", "MkdirParents", "BeforeBind", "Bind", "SetOwner",
     "SetPermissions", "Listen", "CheckInheritedSocket", "Cleanup", "SetSockOpt",
     "LookupOwner", "LookupUnixGroup"}

\* The match of From<OpenSocketError> for io::Error: the ErrorKind of the arm
\* the error takes, or None for a variant that the match has no arm for.
error_kind(error) ==
    CASE error.variant = "InvalidSystemdFd" -> Some("NotFound")
      [] error.variant = "SystemdFdNotSupported" -> Some("Unsupported")
      [] error.variant = "InheritWrongType" -> Some("InvalidData")
      [] error.variant = "AlreadyInherited" -> Some("AddrInUse")
      [] error.variant = "UnsupportedUserOption" -> Some("Unsupported")
      [] error.variant = "InapplicableUserOption" -> Some("InvalidInput")
      [] error.variant = "InheritedIsListening" -> Some("InvalidData")
      [] error.variant = "InheritedIsNotListening" -> Some("InvalidData")
      [] error.variant \in KindPreserved -> Some(kind(error.error))
      [] error.variant \in {"OwnerNotFound", "UnixGroupNotFound"} -> Some("NotFound")
      [] OTHER -> None

\* io::Error::from(error): io::Error::new(kind, error)
io_error_from(error) == [kind |-> error_kind(error), error |-> error]

\* The error that open returned is converted with `?` or .into(); pResult
\* holds the io::Error.
IntoIoError(t) ==
    /\ Returned(t) /\ call[t].api = "open" /\ ~Result(t).ok
    /\ pResult # Some(io_error_from(Result(t).err))
    /\ pResult' = Some(io_error_from(Result(t).err))
    /\ UNCHANGED <<pOrig, pAddr, pText, pRound, openVars>>

\* New and inherited sockets of each kind, with and without a port, with a
\* failure of each system call.
ErrRequests ==
    [address : {Inherit(0), Inherit(3), Inherit(4), Inherit(6), SystemdNumeric(2),
                Ip(Ipv4Addr(127, 0, 0, 1), None), Ip(Ipv4Addr(127, 0, 0, 1), Some(0)),
                Unix(<<"s">>), Unix(<<".", "/", "d", "/", "s">>)},
     app_options : {AppOptions(type, type = STREAM, None, None, None) :
                        type \in {STREAM, DGRAM}},
     user_options : UserOptionSets({"unix_socket_permissions"}),
     fault : {"none", "socket", "stat", "unlink", "mkdir", "SO_REUSEADDR", "bind", "chmod",
              "listen"}]

ErrInit ==
    /\ ParseIdle
    /\ fds = InitialFds(NotASocket)
    /\ held = {}
    /\ environ = Activated(1)
    /\ SD_LISTEN_FDS_END = None
    /\ platform = "ok"
    /\ umask = DefaultUmask
    /\ inheritable = NotCloexec(fds)
    /\ parentProcess = None
    /\ fs = [p \in FsPaths |-> Absent]
    /\ call = [t \in Threads |-> IdleCall]

ErrNext ==
    \/ CallOpen(1, ErrRequests)
    \/ DupInherited(1)
    \/ CheckType(1)
    \/ CheckListening(1)
    \/ CreateSocket(1)
    \/ CleanupStat(1)
    \/ CleanupUnlink(1)
    \/ MkdirParents(1)
    \/ SetSockOpt(1, "SO_REUSEADDR")
    \/ Bind(1)
    \/ SetPermissions(1)
    \/ Listen(1)
    \/ \E d \in Fd : Drop(d)
    \/ IntoIoError(1)

SpecErrors == ErrInit /\ [][ErrNext]_vars

\* The kind the conversion is to give an error, where one is named.
KindFor(error) ==
    CASE error.variant \in {"InvalidSystemdFd", "OwnerNotFound", "UnixGroupNotFound"}
            -> "NotFound"
      [] error.variant = "InapplicableUserOption" -> "InvalidInput"
      [] error.variant \in {"UnsupportedUserOption", "SystemdFdNotSupported"} -> "Unsupported"
      [] error.variant \in {"InheritWrongType", "InheritedIsListening",
                            "InheritedIsNotListening"} -> "InvalidData"
      [] error.variant \in {"InvalidUnixPath", "CreateSocket", "MkdirParents", "Cleanup",
                            "SetSockOpt", "BeforeBind", "Bind", "SetOwner", "SetPermissions",
                            "Listen", "CheckInheritedSocket"} -> kind(error.error)
      [] OTHER -> "any"

\* C25: converting an OpenSocketError into an io::Error keeps the kind of the
\* wrapped error for the system call wrappers, gives NotFound, InvalidInput,
\* Unsupported and InvalidData to the variants named for them, and every
\* variant that open can return, PortRequired and DupInherited among them, has
\* a kind.
C25_ErrorKinds ==
    is_some(pResult) =>
        LET io == unwrap(pResult) IN
        /\ is_some(io.kind)
        /\ KindFor(io.error) # "any" => unwrap(io.kind) = KindFor(io.error)

\* The kinds of the variants that the match has an arm for.
ErrorKindsOfArms ==
    (is_some(pResult) /\ is_some(unwrap(pResult).kind)) =>
        /\ KindFor(unwrap(pResult).error) # "any"
        /\ unwrap(unwrap(pResult).kind) = KindFor(unwrap(pResult).error)

-----------------------------------------------------------------------------
(* cleanup while another process changes the file system. *)

\* Another process puts a file, a directory or a socket at a socket path, or
\* removes what is there.  The record of thread 2 keeps what it did last and
\* where the cleanup of thread 1 was at that moment.
OtherProcess(path, file) ==
    /\ fs[path] # file
    /\ FsState(fs, unwrap(parent(path))).kind = "dir"
    /\ fs' = [fs EXCEPT ![path] = file]
    /\ call' = [call EXCEPT ![2] =
                    Return(Did([IdleCall EXCEPT !.api = "other process",
                                                !.address = Unix(path),
                                                !.before = [fs |-> fs, pc |-> call[1].pc]],
                               IF file.kind = "none" THEN "unlink" ELSE "rename", file),
                           Ok(<<>>))]
    /\ UNCHANGED <<parseVars, procVars, fds, held, environ, SD_LISTEN_FDS_END, platform, umask>>

RaceNext ==
    \/ \E address \in UnixAddresses : CallCleanup(1, address, "none")
    \/ CleanupStat(1)
    \/ CleanupUnlink(1)
    \/ \E path \in SocketPaths,
          file \in {Absent} \cup {File(file_kind, 420) : file_kind \in FileKinds \ {"none"}} :
            OtherProcess(path, file)

SpecRace == FsInit /\ [][RaceNext]_vars

\* The step of cleanup that follows its type check, which found a socket:
\* a file that is not a socket and is at the path by now is deleted, and
\* with nothing at the path by now nothing changes; cleanup returns Ok in
\* both cases.
DeleteUnguarded ==
    (call[1].api = "cleanup" /\ call[1].pc = "unlink" /\ call'[1].pc # "unlink") =>
        LET path == PathOf(call[1])
            ok == call'[1].pc = "returned" /\ unwrap(call'[1].result) = Ok(<<>>)
        IN  /\ fs[path].kind = "file" => (ok /\ fs' = [fs EXCEPT ![path] = Absent])
            /\ fs[path].kind = "none" => (ok /\ fs' = fs)

RemovedInWindow ==
    /\ Returned(1) /\ call[1].api = "cleanup" /\ Result(1) = Ok(<<>>)
    /\ "unlink" \in Ops(call[1])
    /\ call[2].api = "other process"
    /\ call[2].address = call[1].address
    /\ call[2].before.pc = "unlink"
    /\ call[2].trace[1].arg.kind = "none"

-----------------------------------------------------------------------------
(* The steps of one open call, with a failure at any of them. *)

StepRequests ==
    [address : {Inherit(0), Inherit(3), Inherit(4), Inherit(6),
                Ip(Ipv4Addr(127, 0, 0, 1), Some(0)),
                Unix(<<"s">>), Unix(<<".", "/", "d", "/", "s">>)},
     app_options : {AppOptions(type, type = STREAM, None, hook, None) :
                        type \in {STREAM, DGRAM}, hook \in {None, Some("Ok"), Some("Err")}},
     user_options : UserOptionSets({"unix_socket_permissions", "unix_socket_owner",
                                    "ip_socket_reuse_port"}),
     fault : {"none", "SO_REUSEPORT"} \cup Faults]

StepNext ==
    \/ CallOpen(1, StepRequests)
    \/ DupInherited(1)
    \/ CheckType(1)
    \/ CheckListening(1)
    \/ CreateSocket(1)
    \/ CleanupStat(1)
    \/ CleanupUnlink(1)
    \/ MkdirParents(1)
    \/ \E option \in {"SO_REUSEADDR", "SO_REUSEPORT"} : SetSockOpt(1, option)
    \/ BeforeBind(1)
    \/ Bind(1)
    \/ SetOwner(1)
    \/ SetPermissions(1)
    \/ Listen(1)
    \/ \E d \in Fd : Drop(d)

SpecSteps == NewInit /\ [][StepNext]_vars

\* The system call an error of open comes from, "none" for an error that
\* open returns before its first system call.
StepOf(error) ==
    CASE error.variant = "CreateSocket" -> "socket"
      [] error.variant = "Cleanup" -> IF error.source = "Stat" THEN "stat" ELSE "unlink"
      [] error.variant = "MkdirParents" -> "mkdir"
      [] error.variant = "SetSockOpt" -> error.option
      [] error.variant = "BeforeBind" -> "before_bind"
      [] error.variant = "Bind" -> "bind"
      [] error.variant = "SetOwner" -> "chown"
      [] error.variant = "SetPermissions" -> "chmod"
      [] error.variant = "Listen" -> "listen"
      [] error.variant = "DupInherited" -> "dup"
      [] error.variant \in {"CheckInheritedSocket", "InheritWrongType"} -> "type"
      [] error.variant \in {"InheritedIsListening", "InheritedIsNotListening"} -> "is_listener"
      [] OTHER -> "none"

\* Within one call of open no system call is made twice; a system call that
\* fails is the last one of the call, which has returned the error of that
\* system call; and an error returned is that of the last system call made,
\* or comes before the first one.
ErrorsTerminal ==
    \A t \in Threads :
        LET c == call[t] IN
        c.api = "open" =>
            /\ \A i, j \in DOMAIN c.trace : i < j => c.trace[i].op # c.trace[j].op
            /\ (c.fault # "none" /\ c.fault \in Ops(c)) =>
                    /\ Returned(t) /\ ~Result(t).ok
                    /\ StepOf(Result(t).err) = c.fault
                    /\ c.trace[Len(c.trace)].op = c.fault
            /\ (Returned(t) /\ ~Result(t).ok) =>
                    IF StepOf(Result(t).err) = "none" THEN c.trace = <<>>
                    ELSE c.trace # <<>> /\ c.trace[Len(c.trace)].op = StepOf(Result(t).err)

\* The step in which open returns an error leaves the file system as the
\* steps before it made it.
NothingRolledBack ==
    \A t \in Threads :
        (/\ call[t].api = "open" /\ call[t].pc \notin {"idle", "returned"}
         /\ call'[t].pc = "returned" /\ ~unwrap(call'[t].result).ok)
            => fs' = fs

\* C27: every error in open is terminal: within one call each system call is
\* attempted at most once, the first failing step ends the call with the error
\* of that step, no later step is performed, and nothing already done (stale
\* socket deleted, directories created, socket file bound) is rolled back.
C27_ErrorsTerminal == []ErrorsTerminal /\ [][NothingRolledBack]_vars

\* listen has failed after the parent directory was created and the socket
\* file bound: both are still there.
C27_FailedAfterBind ==
    /\ Failed(1, "Listen")
    /\ Precedes(call[1], "mkdir", "bind")
    /\ fs[<<".", "/", "d">>].kind = "dir"
    /\ fs[<<".", "/", "d", "/", "s">>].kind = "socket"

-----------------------------------------------------------------------------
(* The descriptors of the process before and after a call of open. *)

\* The descriptors that are open.
OpenDescriptors(table) == {d \in DOMAIN table : table[d].kind # "closed"}

\* A thread calls open, and the descriptors open at that moment are noted.
CallOpenNoting(t, all) ==
    \E req \in Requests(t, all) : BeginOpenNoting(t, req, OpenDescriptors(fds))

\* The caller drops a Socket between two calls.
DropBetweenCalls(d) == InFlight = {} /\ Drop(d)

LeakNext ==
    \/ CallOpenNoting(1, StepRequests)
    \/ DupInherited(1)
    \/ CheckType(1)
    \/ CheckListening(1)
    \/ CreateSocket(1)
    \/ CleanupStat(1)
    \/ CleanupUnlink(1)
    \/ MkdirParents(1)
    \/ \E option \in {"SO_REUSEADDR", "SO_REUSEPORT"} : SetSockOpt(1, option)
    \/ BeforeBind(1)
    \/ Bind(1)
    \/ SetOwner(1)
    \/ SetPermissions(1)
    \/ Listen(1)
    \/ \E d \in Fd : DropBetweenCalls(d)

SpecLeak == NewInit /\ [][LeakNext]_vars

\* The step in which open returns: after an error the open descriptors are
\* those noted before the call; after a success they are those and one more,
\* the socket returned.
ReturnsWithoutLeak ==
    \A t \in Threads :
        (call[t].api = "open" /\ call[t].pc # "returned" /\ call'[t].pc = "returned") =>
            LET result == unwrap(call'[t].result)
                noted == call'[t].before
            IN  IF result.ok
                THEN /\ result.val \notin noted
                     /\ OpenDescriptors(fds') = noted \cup {result.val}
                ELSE OpenDescriptors(fds') = noted

\* C28: no descriptor leak: for every open call that returns an error, on
\* either path and at whichever step, the descriptors open when the call
\* returns are those open before the call; for every successful call they are
\* those plus exactly one new descriptor, the returned socket.
C28_NoDescriptorLeak == [][ReturnsWithoutLeak]_vars

\* open has made the duplicate of an inherited socket and returned
\* InheritWrongType, and the descriptors open are those noted before the call.
C28_DuplicateClosed ==
    /\ Failed(1, "InheritWrongType")
    /\ "dup" \in Ops(call[1])
    /\ is_some(call[1].socket)
    /\ OpenDescriptors(fds) = call[1].before

-----------------------------------------------------------------------------
(* The first use of SD_LISTEN_FDS_END, step by step, while the environment
   changes. *)

LazyRequests ==
    [address : {SystemdNumeric(d) : d \in {0, 2, 3}},
     app_options : {AppOptions(STREAM, TRUE, None, None, None)},
     user_options : {UserOptionsSetting({})},
     fault : {"none"}]

\* The environments that the process moves between.
LazyEnvironments ==
    {NoEnvironment, Activated(1),
     [LISTEN_PID |-> Some(Text(ProcessId + 1)), LISTEN_FDS |-> Some(Text(2))]}

\* The threads that are running the closure of the Lazy.
Initializing == {t \in Threads : call[t].pc \in {"LISTEN_PID", "LISTEN_FDS"}}

\* open dereferences the Lazy, which is not initialized and which no thread
\* is initializing: this thread runs the closure.
BeginForce(t, req) ==
    /\ call[t].pc \in {"idle", "returned"}
    /\ call[t].pc = "returned" => Repeats(call[t], req)
    /\ Cardinality(held) + Cardinality(InFlight) < MaxHeld
    /\ Dereferences(req.address)
    /\ is_none(SD_LISTEN_FDS_END)
    /\ Initializing = {}
    /\ call' = [call EXCEPT ![t] =
                    [IdleCall EXCEPT !.pc = "LISTEN_PID", !.address = req.address,
                                     !.app_options = req.app_options,
                                     !.user_options = req.user_options,
                                     !.fault = req.fault, !.prev = call[t].result]]
    /\ UNCHANGED <<parseVars, procVars, fds, held, environ, SD_LISTEN_FDS_END, platform, umask,
                   fs>>

CallOpenForcing(t, all) == \E req \in Requests(t, all) : BeginForce(t, req)

\* open with an address that does not dereference the Lazy, or with the Lazy
\* initialized; a thread that dereferences it while another one initializes it
\* waits.  The value of the Lazy is noted.
CallOpenInitialized(t, all) ==
    \E req \in Requests(t, all) :
        /\ Dereferences(req.address) => is_some(SD_LISTEN_FDS_END)
        /\ BeginOpenNoting(t, req, SD_LISTEN_FDS_END)

\* env::var("LISTEN_PID")
ReadListenPid(t) ==
    /\ call[t].pc = "LISTEN_PID"
    /\ call' = [call EXCEPT ![t] = [Did(call[t], "LISTEN_PID", environ.LISTEN_PID)
                                        EXCEPT !.pc = "LISTEN_FDS"]]
    /\ UNCHANGED <<parseVars, procVars, fds, held, environ, SD_LISTEN_FDS_END, platform, umask,
                   fs>>

\* env::var("LISTEN_FDS"), the end of the closure, and the rest of open up to
\* its first system call.  pResult keeps the environment that the closure read.
ReadListenFds(t) ==
    /\ call[t].pc = "LISTEN_FDS"
    /\ LET env == [LISTEN_PID |-> call[t].trace[1].arg, LISTEN_FDS |-> environ.LISTEN_FDS]
           cell == Force(SD_LISTEN_FDS_END, env)
           c == [call[t] EXCEPT !.pc = "open", !.trace = <<>>, !.before = cell]
       IN  /\ SD_LISTEN_FDS_END' = cell
           /\ call' = [call EXCEPT ![t] = open(c, cell)]
           /\ pResult' = Some(env)
    /\ UNCHANGED <<pOrig, pAddr, pText, pRound, procVars, fds, held, environ, platform, umask,
                   fs>>

\* env::set_var or env::remove_var somewhere in the process.
SetEnv(env) ==
    /\ env # environ
    /\ environ' = env
    /\ UNCHANGED <<parseVars, procVars, fds, held, SD_LISTEN_FDS_END, platform, umask, fs, call>>

LazyInit ==
    /\ ParseIdle
    /\ fds = InitialFds(SocketFd("STREAM", TRUE))
    /\ held = {}
    /\ environ \in {NoEnvironment, Activated(1)}
    /\ SD_LISTEN_FDS_END = None
    /\ platform = "ok"
    /\ umask = DefaultUmask
    /\ inheritable = NotCloexec(fds)
    /\ parentProcess = None
    /\ fs = [p \in FsPaths |-> Absent]
    /\ call = [t \in Threads |-> IdleCall]

LazyNext ==
    \/ \E t \in Threads : CallOpenForcing(t, LazyRequests)
    \/ \E t \in Threads : CallOpenInitialized(t, LazyRequests)
    \/ \E t \in Threads : ReadListenPid(t)
    \/ \E t \in Threads : ReadListenFds(t)
    \/ \E env \in LazyEnvironments : SetEnv(env)
    \/ \E t \in Threads : DupInherited(t)
    \/ \E t \in Threads : CheckType(t)
    \/ \E t \in Threads : CheckListening(t)
    \/ \E d \in Fd : Drop(d)

SpecLazy == LazyInit /\ [][LazyNext]_vars

\* A call of open that has dereferenced the Lazy.
Dereferenced(t) ==
    /\ call[t].api = "open"
    /\ call[t].pc \notin {"idle", "LISTEN_PID", "LISTEN_FDS"}
    /\ Dereferences(call[t].address)

\* At most one thread runs the closure, and only while the Lazy is not
\* initialized; the value of the Lazy is the one computed from the environment
\* that the closure read; every call that dereferenced the Lazy saw that value,
\* and is rejected with InvalidSystemdFd or goes on to inherit according to
\* it, whatever the environment is now.
ComputedOnce ==
    /\ Cardinality(Initializing) <= 1
    /\ Initializing # {} => is_none(SD_LISTEN_FDS_END)
    /\ is_some(SD_LISTEN_FDS_END) =>
            /\ is_some(pResult)
            /\ unwrap(SD_LISTEN_FDS_END) = SdListenFdsEndInit(unwrap(pResult))
    /\ \A t \in Threads :
            Dereferenced(t) =>
                /\ call[t].before = SD_LISTEN_FDS_END
                /\ is_some(pResult)
                /\ Failed(t, "InvalidSystemdFd")
                        <=> is_none(SdListenFdsEndInit(unwrap(pResult)))

\* Once initialized, the Lazy keeps its value.
Immutable ==
    is_some(SD_LISTEN_FDS_END) => SD_LISTEN_FDS_END' = SD_LISTEN_FDS_END

\* C29: the activation window is computed at most once per process, at the
\* first use, and is immutable afterwards: a change of LISTEN_PID or LISTEN_FDS
\* after the first use has no effect on later calls of open, and threads that
\* make the first use concurrently all observe the same single value.
C29_ComputedOnce == []ComputedOnce /\ [][Immutable]_vars

\* Both threads have opened sd:0, which the window computed at the first use
\* admits, in an environment that by now names no window at all.
C29_EnvironmentChanged ==
    /\ \A t \in Threads :
            /\ Returned(t) /\ Dereferenced(t)
            /\ "dup" \in Ops(call[t])
            /\ is_some(call[t].prev)
    /\ environ = NoEnvironment
    /\ is_some(unwrap(SD_LISTEN_FDS_END))

-----------------------------------------------------------------------------
(* "stdin" and "fd:0" side by side. *)

AllStdinRequests ==
    [address : {InheritStdin, Inherit(0)},
     app_options : {AppOptions(type, listen, None, None, None) :
                        type \in {STREAM, DGRAM}, listen \in BOOLEAN},
     user_options : UserOptionSets({"ip_socket_v6_only", "listen_socket_backlog",
                                    "unix_socket_permissions"}),
     fault : {"none"}]

\* Thread 1 opens InheritStdin and thread 2 opens Inherit { socket: 0 }.
StdinRequests(t) ==
    {req \in AllStdinRequests : req.address = IF t = 1 THEN InheritStdin ELSE Inherit(0)}

StdinInit ==
    /\ pOrig = InheritStdin
    /\ pAddr = InheritStdin
    /\ pText = Some(<<"s", "t", "d", "i", "n">>)
    /\ pResult = None
    /\ pRound = 0
    /\ \E stdin \in StdinStates \cup {Closed} : fds = InitialFds(stdin)
    /\ held = {}
    /\ environ = NoEnvironment
    /\ SD_LISTEN_FDS_END = None
    /\ platform \in {"ok", "unsupported"}
    /\ umask = DefaultUmask
    /\ inheritable = NotCloexec(fds)
    /\ parentProcess = None
    /\ fs = [p \in FsPaths |-> Absent]
    /\ call = [t \in Threads |-> IdleCall]

StdinNext ==
    \/ Parse
    \/ \E t \in Threads : CallOpen(t, StdinRequests(t))
    \/ \E t \in Threads : DupInherited(t)
    \/ \E t \in Threads : CheckType(t)
    \/ \E t \in Threads : CheckListening(t)
    \/ \E d \in Fd : Drop(d)

SpecStdin == StdinInit /\ [][StdinNext]_vars

\* open(InheritStdin) and open(Inherit { socket: 0 }) with the same options
\* have returned: both failed with the same error after the same system calls,
\* or both returned a socket that is a duplicate of descriptor 0, of which the
\* first system call made the duplicate.
SameAsFdZero ==
    (/\ Returned(1) /\ Returned(2)
     /\ call[1].address = InheritStdin /\ call[2].address = Inherit(0)
     /\ call[1].app_options = call[2].app_options
     /\ call[1].user_options = call[2].user_options)
    => /\ Result(1).ok <=> Result(2).ok
       /\ ~Result(1).ok => Result(1) = Result(2)
       /\ [i \in DOMAIN call[1].trace |-> call[1].trace[i].op]
            = [i \in DOMAIN call[2].trace |-> call[2].trace[i].op]
       /\ call[1].trace # <<>> => call[1].trace[1] = [op |-> "dup", arg |-> 0]
       /\ Result(1).ok =>
            /\ Result(1).val # 0 /\ Result(2).val # 0
            /\ Result(1).val \in held => fds[Result(1).val] = fds[0]
            /\ Result(2).val \in held => fds[Result(2).val] = fds[0]

\* Parsing "stdin" gives InheritStdin, and the step that parses changes no
\* descriptor.
ParsingTouchesNothing ==
    pResult' # pResult =>
        /\ pResult' = Some(Ok(InheritStdin))
        /\ fds' = fds /\ held' = held /\ inheritable' = inheritable

\* C30: InheritStdin is resolved at open time to descriptor 0 and is handled
\* exactly like Inherit { socket: 0 }: for every app and user options and
\* every state of descriptor 0 the two have the same outcome, the same error
\* or success with a duplicate of descriptor 0; and parsing "stdin" touches
\* no descriptor.
C30_StdinIsFdZero == []SameAsFdZero /\ [][ParsingTouchesNothing]_vars

\* Both calls have returned a duplicate of the listening socket that is the
\* standard input, and both duplicates are held.
C30_BothDuplicated ==
    /\ Returned(1) /\ Returned(2)
    /\ call[1].address = InheritStdin /\ call[2].address = Inherit(0)
    /\ call[1].app_options = call[2].app_options
    /\ Result(1).ok /\ Result(2).ok
    /\ {Result(1).val, Result(2).val} \subseteq held
    /\ Result(1).val # Result(2).val
    /\ fds[0] = SocketFd("STREAM", TRUE)
    /\ pResult = Some(Ok(InheritStdin))

====
